---- MODULE Spec2Model ----
(***************************************************************************)
(* Model of the document processing orchestrator of agentthink-rag         *)
(* (app/services/processor.py) together with the parts of the Qdrant       *)
(* wrapper (app/services/vector_store.py) it drives.                       *)
(*                                                                         *)
(* process_document is split at its collaborator calls, so that calls made *)
(* by several worker threads interleave where the interpreter can switch   *)
(* between them: every action performs at most one access to the shared    *)
(* registry or to the shared vector store.  The calls are numbered in the  *)
(* order in which they start.                                              *)
(*                                                                         *)
(* Strings the code inspects character by character (file names, project   *)
(* ids) are sequences of one-character strings; Str turns them into text.  *)
(***************************************************************************)
EXTENDS Integers, Sequences, FiniteSets, TLC

VARIABLES
    processing_status,  \* processor._processing_status: document_id -> DocumentStatusResponse
    qdrant,             \* the Qdrant server: existing collections and their points
    is_connected,       \* VectorStoreService._is_connected, fixed by __init__
    is_loaded,          \* EmbeddingService._is_loaded, fixed by __init__
    th,                 \* per process_document call: its arguments, locals and position
    writer,             \* history: document_id -> the call that last wrote its registry entry,
                        \* None once the entry is cleared
    engine,             \* the ChunkingEngine: chunk_size_chars and chunk_overlap_chars
    chunked,            \* the last chunk_document call: its arguments and returned list
    rechunked,          \* the list returned when that call is made once more
    split,              \* the last _split_at_sentences call: its text and returned list
    combined,           \* the last _combine_with_overlap call: its parts and returned list
    parsed,             \* the last DocumentParser.parse call: its file and what came of it
    deleted             \* the last delete_document call of a deletion flow whose return
                        \* value is observed: its arguments, the returned count and the
                        \* registry and store it found

vars == <<processing_status, qdrant, is_connected, is_loaded, th, writer,
          engine, chunked, rechunked, split, combined, parsed, deleted>>

----------------------------------------------------------------------------
(* Bounds of the model *)

MaxSections == 1
MaxChunks == 1

(* The longest text given to the chunker, in pieces; the longest document, *)
(* in sections, among those of several sections.                           *)
MaxPieces == 3
MaxDocSections == 2

(* The process_document calls of a behaviour, in the order they start. *)
Threads == {1, 2}

(* Optional[T]: None is the empty sequence, a value x is <<x>>. *)
None == <<>>
Some(x) == <<x>>

DocumentIds == {"d1", "d2"}
ProjectIds == {<<"p", "-", "1">>, <<"q">>}
Filenames ==
    {
      <<"r", ".", "P", "D", "F">>,
      <<"x", ".", "E", "x", "e">>,
      <<"v", ".", "1", "/", "R", "E", "A", "D", "M", "E">> }

(* Texts of the exceptions a collaborator may raise (str(e)). *)
ExcTexts == {"connection refused"}

----------------------------------------------------------------------------
(* Character-level helpers for Path(filename).suffix.lower().lstrip('.') *)

UpperChars == <<"A", "B", "C", "D", "E", "F", "G", "H", "I", "J", "K", "L", "M",
                "N", "O", "P", "Q", "R", "S", "T", "U", "V", "W", "X", "Y", "Z">>
LowerChars == <<"a", "b", "c", "d", "e", "f", "g", "h", "i", "j", "k", "l", "m",
                "n", "o", "p", "q", "r", "s", "t", "u", "v", "w", "x", "y", "z">>

RECURSIVE Str(_)
Str(s) == IF s = <<>> THEN "" ELSE Head(s) \o Str(Tail(s))

LowerChar(c) ==
    IF \E k \in 1..Len(UpperChars) : UpperChars[k] = c
    THEN LowerChars[CHOOSE k \in 1..Len(UpperChars) : UpperChars[k] = c]
    ELSE c

Lower(s) == [k \in 1..Len(s) |-> LowerChar(s[k])]

(* index of the last occurrence of c in s, 0 when there is none *)
RFind(s, c) ==
    IF \E k \in 1..Len(s) : s[k] = c
    THEN CHOOSE k \in 1..Len(s) : s[k] = c /\ \A j \in (k+1)..Len(s) : s[j] # c
    ELSE 0

(* PurePath.name: the final path component *)
PathName(s) == SubSeq(s, RFind(s, "/") + 1, Len(s))

(* PurePath.suffix: from the last dot of the name, unless the name starts or ends with it *)
Suffix(s) ==
    LET name == PathName(s)
        k == RFind(name, ".")
    IN IF 1 < k /\ k < Len(name) THEN SubSeq(name, k, Len(name)) ELSE <<>>

RECURSIVE LStrip(_, _)
LStrip(s, c) == IF s # <<>> /\ Head(s) = c THEN LStrip(Tail(s), c) ELSE s

(* str.replace(old, new) for one-character old and new *)
Replace(s, old, new) == [k \in 1..Len(s) |-> IF s[k] = old THEN new ELSE s[k]]

(* FileExt without .lower() *)
FileExt_not_lowered(filename) == Str(LStrip(Suffix(filename), "."))

(* process_document, line 134: Path(filename).suffix.lower().lstrip('.') *)
FileExt(filename) == Str(LStrip(Lower(Suffix(filename)), "."))

ALLOWED_EXTENSIONS == {"pdf", "docx", "csv", "txt", "md"}

----------------------------------------------------------------------------
(* Status registry *)

DocumentStatusResponse(document_id, status, chunk_count, error_message) ==
    [document_id |-> document_id, status |-> status,
     chunk_count |-> chunk_count, error_message |-> error_message]

(* update_status that stores the status and the count but not the message *)
update_status_without_message(ps, document_id, status, chunk_count, error_message) ==
    (document_id :> DocumentStatusResponse(document_id, status, chunk_count, None)) @@ ps

update_status(ps, document_id, status, chunk_count, error_message) ==
    (document_id :> DocumentStatusResponse(document_id, status, chunk_count, error_message)) @@ ps

(* get_status answering 'pending' for a document the registry does not hold *)
get_status_pending(ps, document_id) ==
    IF document_id \in DOMAIN ps THEN Some(ps[document_id])
    ELSE Some(DocumentStatusResponse(document_id, "pending", 0, None))

get_status(ps, document_id) ==
    IF document_id \in DOMAIN ps THEN Some(ps[document_id]) ELSE None

clear_status(ps, document_id) ==
    [d \in (DOMAIN ps) \ {document_id} |-> ps[d]]

ProcessingResult(document_id, status, chunk_count, error_message) ==
    [document_id |-> document_id, status |-> status,
     chunk_count |-> chunk_count, error_message |-> error_message]

----------------------------------------------------------------------------
(* Vector store (Qdrant wrapper) *)

batch_size == 100

_get_collection_name(project_id) == "project_" \o Str(Replace(project_id, "-", "_"))

(* The payload fields of a point that the orchestrator's behaviour depends on. *)
(* chunk_id is a fresh uuid4: the pair of the run that made it and its index.   *)
Point(collection_name, run, chunk_index, document_id) ==
    [collection |-> collection_name, chunk_id |-> <<run, chunk_index>>,
     document_id |-> document_id, chunk_index |-> chunk_index]

(* PointsOf matching on the collection alone, without the document_id filter *)
PointsOf_collection(q, collection_name, document_id) ==
    {pt \in q.points : pt.collection = collection_name}

(* the points the filter of lines 298-304 and 315-322 matches in a collection *)
PointsOf(q, collection_name, document_id) ==
    {pt \in q.points : pt.collection = collection_name /\ pt.document_id = document_id}

(* delete_document_chunks: the new server state and the returned count.     *)
(* client_raises: one of the client calls inside the try block raises.      *)
delete_document_chunks(q, connected, project_id, document_id, client_raises) ==
    LET collection_name == _get_collection_name(project_id)
        matching == PointsOf(q, collection_name, document_id)
        count == Cardinality(matching)
    IN IF ~connected THEN [qdrant |-> q, ret |-> 0]
       ELSE IF client_raises THEN [qdrant |-> q, ret |-> 0]
       ELSE IF collection_name \notin q.collections THEN [qdrant |-> q, ret |-> 0]
       ELSE IF count = 0 THEN [qdrant |-> q, ret |-> 0]
       ELSE [qdrant |-> [q EXCEPT !.points = @ \ matching], ret |-> count]

(* ensure_collection: creates the collection unless it exists; a client     *)
(* error is logged and swallowed.                                           *)
ensure_collection(q, connected, project_id, client_raises) ==
    LET collection_name == _get_collection_name(project_id)
    IN IF ~connected THEN q
       ELSE IF client_raises THEN q
       ELSE IF collection_name \in q.collections THEN q
       ELSE [q EXCEPT !.collections = @ \cup {collection_name}]

Min(a, b) == IF a <= b THEN a ELSE b

Range(s) == {s[k] : k \in 1..Len(s)}

(* points[i:i + batch_size] of the points built from the run's chunks (0-based i) *)
Batch(project_id, document_id, run, nchunks, i) ==
    { Point(_get_collection_name(project_id), run, k, document_id) :
        k \in i..(Min(i + batch_size, nchunks) - 1) }

----------------------------------------------------------------------------
(* Worker threads: the locals of one process_document call *)

Idle ==
    [pc |-> "idle", project_id |-> <<>>, document_id |-> "", filename |-> <<>>,
     file_ext |-> "", run |-> 0, sections |-> 0, chunks |-> 0, embeddings |-> 0,
     i |-> 0, total_upserted |-> 0, result |-> None,
     \* history of the call, read only by the properties:
     calls |-> <<>>,          \* the registry writes and collaborator calls made, in order
     raised |-> None,         \* the text of the exception a collaborator raised
     prev |-> None,           \* the call that had left the document 'ready' at the start
     alone |-> TRUE,          \* no other call for the document has overlapped this one
     peer_cleaned |-> FALSE]  \* a peer's cleanup preceded the start of this call's upsert

Running(r) == r.pc \notin {"idle", "done"}

(* Sizes the chunker may return: small documents and one that needs two upsert batches *)
ChunkCounts == (0..MaxChunks) \cup {batch_size + 1}

(* Sizes the embedder may return for n texts *)
EmbedCounts(n) == {n - 1, n, n + 1}

Init ==
    /\ processing_status = <<>>
    /\ qdrant = [collections |-> {}, points |-> {}]
    /\ is_connected \in BOOLEAN
    /\ is_loaded \in BOOLEAN
    /\ th = [t \in Threads |-> Idle]
    /\ writer = [d \in DocumentIds |-> None]
    /\ engine = None
    /\ chunked = None
    /\ rechunked = None
    /\ split = None
    /\ combined = None
    /\ parsed = None
    /\ deleted = None

(* The call returns result; its locals die, except the number of chunks,     *)
(* which the properties compare with the reported count.                    *)
Returned(rec, result) ==
    [rec EXCEPT !.pc = "done", !.result = Some(result),
                !.sections = 0, !.embeddings = 0, !.i = 0, !.total_upserted = 0,
                !.calls = Append(@, "update_status:" \o result.status)]

(* _error_result that reports the chunks made so far with the error *)
_error_result_counting(t, rec, error_message) ==
    /\ processing_status' =
         update_status(processing_status, rec.document_id, "error", rec.chunks,
                       Some(error_message))
    /\ writer' = [writer EXCEPT ![rec.document_id] =
                     Some([run |-> rec.run, project_id |-> rec.project_id])]
    /\ th' = [th EXCEPT ![t] =
                Returned(rec, ProcessingResult(rec.document_id, "error", 0,
                                               Some(error_message)))]

(* _error_result: registry write and the returned value, ending the call.   *)
(* rec is the call's record as the step has changed it so far.              *)
_error_result(t, rec, error_message) ==
    /\ processing_status' =
         update_status(processing_status, rec.document_id, "error", 0, Some(error_message))
    /\ writer' = [writer EXCEPT ![rec.document_id] =
                     Some([run |-> rec.run, project_id |-> rec.project_id])]
    /\ th' = [th EXCEPT ![t] =
                Returned(rec, ProcessingResult(rec.document_id, "error", 0,
                                               Some(error_message)))]

(* ExceptHandler reporting a fixed text instead of str(e) *)
ExceptHandler_generic(t, rec, e) ==
    _error_result(t, [rec EXCEPT !.raised = Some(e)], "Internal error")

(* process_document, lines 221-227: except Exception as e *)
ExceptHandler(t, rec, e) ==
    _error_result(t, [rec EXCEPT !.raised = Some(e)], e)

(* process_document, lines 130-144: validation and the first registry write *)
Submit(t, project_id, document_id, filename) ==
    /\ th[t].pc = "idle"
    /\ \A u \in Threads : u < t => th[u].pc # "idle"
    /\ LET file_ext == FileExt(filename)
           others == {u \in Threads \ {t} :
                        Running(th[u]) /\ th[u].document_id = document_id}
           ready == document_id \in DOMAIN processing_status
                    /\ processing_status[document_id].status = "ready"
           rec == [Idle EXCEPT !.project_id = project_id, !.document_id = document_id,
                               !.filename = filename, !.file_ext = file_ext,
                               !.run = t,
                               !.prev = IF ready THEN writer[document_id] ELSE None,
                               !.alone = (others = {})]
           seen == [u \in Threads |->
                      IF u \in others THEN [th[u] EXCEPT !.alone = FALSE] ELSE th[u]]
       IN IF file_ext \notin ALLOWED_EXTENSIONS
          THEN /\ processing_status' =
                    update_status(processing_status, document_id, "error", 0,
                                  Some("Unsupported file type: ." \o file_ext))
               /\ writer' = [writer EXCEPT ![document_id] =
                                Some([run |-> rec.run, project_id |-> project_id])]
               /\ th' = [seen EXCEPT ![t] =
                           Returned(rec, ProcessingResult(document_id, "error", 0,
                                      Some("Unsupported file type: ." \o file_ext)))]
          ELSE /\ processing_status' =
                    update_status(processing_status, document_id, "processing", 0, None)
               /\ writer' = [writer EXCEPT ![document_id] =
                                Some([run |-> rec.run, project_id |-> project_id])]
               /\ th' = [seen EXCEPT ![t] =
                           [rec EXCEPT !.pc = "cleanup",
                                       !.calls = <<"update_status:processing">>]]
    /\ UNCHANGED <<qdrant, is_connected, is_loaded,
                 engine, chunked, rechunked, split, combined, parsed, deleted>>

(* Cleanup that goes on to the parser without the deletion *)
Cleanup_skipped(t) ==
    /\ th[t].pc = "cleanup"
    /\ th' = [th EXCEPT ![t].pc = "parse"]
    /\ UNCHANGED <<processing_status, qdrant, is_connected, is_loaded, writer,
                 engine, chunked, rechunked, split, combined, parsed, deleted>>

(* lines 146-149: self.delete_document(project_id, document_id) *)
Cleanup(t) ==
    /\ th[t].pc = "cleanup"
    /\ LET rec == [th[t] EXCEPT !.calls = Append(@, "delete_document_chunks")]
       IN \/ \E client_raises \in BOOLEAN :
               /\ qdrant' = delete_document_chunks(qdrant, is_connected, rec.project_id,
                                                   rec.document_id, client_raises).qdrant
               /\ th' = [th EXCEPT ![t] = [rec EXCEPT !.pc = "parse"]]
               /\ UNCHANGED <<processing_status, writer>>
          \/ \E e \in ExcTexts :
               \* raised outside the try of lines 290-333 (the import, the name)
               /\ is_connected
               /\ ExceptHandler(t, rec, e)
               /\ UNCHANGED qdrant
    /\ UNCHANGED <<is_connected, is_loaded,
                 engine, chunked, rechunked, split, combined, parsed, deleted>>

(* Parse that reports the completed stage to the registry *)
Parse_reporting(t) ==
    /\ th[t].pc = "parse"
    /\ th' = [th EXCEPT ![t].pc = "chunk", ![t].sections = 1,
                        ![t].calls = @ \o <<"parse", "update_status:processing">>]
    /\ processing_status' =
         update_status(processing_status, th[t].document_id, "processing", 0, None)
    /\ writer' = [writer EXCEPT ![th[t].document_id] =
                     Some([run |-> th[t].run, project_id |-> th[t].project_id])]
    /\ UNCHANGED <<qdrant, is_connected, is_loaded,
                 engine, chunked, rechunked, split, combined, parsed, deleted>>

(* lines 151-162: sections = self.parser.parse(file_path, file_ext) *)
Parse(t) ==
    /\ th[t].pc = "parse"
    /\ LET rec == [th[t] EXCEPT !.calls = Append(@, "parse")]
       IN \/ \E n \in 0..MaxSections :
               IF n = 0
               THEN _error_result(t, rec, "No content could be extracted from the document")
               ELSE /\ th' = [th EXCEPT ![t] = [rec EXCEPT !.pc = "chunk", !.sections = n]]
                    /\ UNCHANGED <<processing_status, writer>>
          \/ \E e \in ExcTexts : ExceptHandler(t, rec, e)
    /\ UNCHANGED <<qdrant, is_connected, is_loaded,
                 engine, chunked, rechunked, split, combined, parsed, deleted>>

(* Chunk that goes on to the embedder with no chunk *)
Chunk_going_on(t) ==
    /\ th[t].pc = "chunk"
    /\ \E n \in ChunkCounts :
         th' = [th EXCEPT ![t].pc = "embed", ![t].chunks = n,
                          ![t].calls = Append(@, "chunk_document")]
    /\ UNCHANGED <<processing_status, writer, qdrant, is_connected, is_loaded,
                   engine, chunked, rechunked, split, combined, parsed, deleted>>

(* lines 164-175: chunks = self.chunker.chunk_document(sections, document_id, filename) *)
Chunk(t) ==
    /\ th[t].pc = "chunk"
    /\ LET rec == [th[t] EXCEPT !.calls = Append(@, "chunk_document")]
       IN \/ \E n \in ChunkCounts :
               IF n = 0
               THEN _error_result(t, rec, "Document could not be chunked")
               ELSE /\ th' = [th EXCEPT ![t] = [rec EXCEPT !.pc = "embed", !.chunks = n]]
                    /\ UNCHANGED <<processing_status, writer>>
          \/ \E e \in ExcTexts : ExceptHandler(t, rec, e)
    /\ UNCHANGED <<qdrant, is_connected, is_loaded,
                 engine, chunked, rechunked, split, combined, parsed, deleted>>

(* EmbeddingMismatch that only notices missing vectors *)
EmbeddingMismatch_fewer(embeddings, chunks) == embeddings < chunks

(* line 182: len(embeddings) != len(chunks) *)
EmbeddingMismatch(embeddings, chunks) == embeddings # chunks

(* lines 177-189: embeddings = self.embedder.embed_batch(contents, batch_size=32) *)
Embed(t) ==
    /\ th[t].pc = "embed"
    /\ LET rec == [th[t] EXCEPT !.calls = Append(@, "embed_batch")]
       IN IF ~is_loaded
          THEN ExceptHandler(t, rec, "Embedding model not loaded")
          ELSE \/ \E n \in EmbedCounts(rec.chunks) :
                    IF EmbeddingMismatch(n, rec.chunks)
                    THEN _error_result(t, rec, "Embedding generation failed")
                    ELSE /\ th' = [th EXCEPT ![t] =
                                     [rec EXCEPT !.pc = "store", !.embeddings = n]]
                         /\ UNCHANGED <<processing_status, writer>>
               \/ \E e \in ExcTexts : ExceptHandler(t, rec, e)
    /\ UNCHANGED <<qdrant, is_connected, is_loaded,
                 engine, chunked, rechunked, split, combined, parsed, deleted>>

(* upsert_chunks, lines 145-182: the checks, ensure_collection, the points *)
UpsertBegin(t) ==
    /\ th[t].pc = "store"
    /\ LET peers == {u \in Threads \ {t} :
                       /\ th[u].document_id = th[t].document_id
                       /\ _get_collection_name(th[u].project_id) =
                            _get_collection_name(th[t].project_id)
                       /\ "delete_document_chunks" \in Range(th[u].calls)}
           rec == [th[t] EXCEPT !.calls = Append(@, "upsert_chunks"),
                                !.i = 0, !.total_upserted = 0,
                                !.peer_cleaned = (peers # {})]
       IN \/ /\ ~is_connected \/ rec.chunks # rec.embeddings
             /\ th' = [th EXCEPT ![t] = [rec EXCEPT !.pc = "stored"]]
             /\ UNCHANGED <<qdrant, processing_status, writer>>
          \/ /\ is_connected /\ rec.chunks = rec.embeddings
             /\ \E client_raises \in BOOLEAN :
                  qdrant' = ensure_collection(qdrant, is_connected, rec.project_id,
                                              client_raises)
             /\ th' = [th EXCEPT ![t] = [rec EXCEPT !.pc = "upsert"]]
             /\ UNCHANGED <<processing_status, writer>>
          \/ \E e \in ExcTexts :
               \* raised outside the try of lines 184-198 (the import, the points)
               /\ is_connected /\ rec.chunks = rec.embeddings
               /\ ExceptHandler(t, rec, e)
               /\ UNCHANGED qdrant
    /\ UNCHANGED <<is_connected, is_loaded,
                 engine, chunked, rechunked, split, combined, parsed, deleted>>

(* upsert_chunks, lines 184-198: one iteration of the batch loop *)
UpsertBatch(t) ==
    /\ th[t].pc = "upsert"
    /\ LET rec == th[t]
           batch == Batch(rec.project_id, rec.document_id, rec.run, rec.chunks, rec.i)
           n == Cardinality(batch)
       IN \/ /\ _get_collection_name(rec.project_id) \in qdrant.collections
             /\ qdrant' = [qdrant EXCEPT !.points = @ \cup batch]
             /\ th' = [th EXCEPT ![t] =
                         [rec EXCEPT !.total_upserted = @ + n,
                                     !.i = @ + batch_size,
                                     !.pc = IF rec.i + batch_size < rec.chunks
                                            THEN "upsert" ELSE "stored"]]
          \/ /\ th' = [th EXCEPT ![t] = [rec EXCEPT !.pc = "stored"]]
             /\ UNCHANGED qdrant
    /\ UNCHANGED <<processing_status, writer, is_connected, is_loaded,
                 engine, chunked, rechunked, split, combined, parsed, deleted>>

(* StoreFailed that lets a count of 0 through *)
StoreFailed_negative(upserted) == upserted < 0

(* line 195: upserted == 0 *)
StoreFailed(upserted) == upserted = 0

(* ReadyCount reporting the number of chunks handed to the store *)
ReadyCount_chunks(rec) == rec.chunks

(* ReadyCount reporting the number of chunks the store holds for the document *)
ReadyCount_stored(rec) ==
    Cardinality(PointsOf(qdrant, _get_collection_name(rec.project_id), rec.document_id))

(* lines 207 and 217: chunk_count=upserted *)
ReadyCount(rec) == rec.total_upserted

(* Finish that returns only once the store has accepted a chunk *)
Finish_waiting(t) ==
    /\ th[t].pc = "stored"
    /\ ~StoreFailed(th[t].total_upserted)
    /\ LET rec == th[t]
       IN /\ processing_status' =
               update_status(processing_status, rec.document_id, "ready",
                             ReadyCount(rec), None)
          /\ writer' = [writer EXCEPT ![rec.document_id] =
                           Some([run |-> rec.run, project_id |-> rec.project_id])]
          /\ th' = [th EXCEPT ![t] =
                      Returned(rec, ProcessingResult(rec.document_id, "ready",
                                                     ReadyCount(rec), None))]
    /\ UNCHANGED <<qdrant, is_connected, is_loaded,
                 engine, chunked, rechunked, split, combined, parsed, deleted>>

(* process_document, lines 195-219: the upserted count decides the outcome *)
Finish(t) ==
    /\ th[t].pc = "stored"
    /\ LET rec == th[t]
           upserted == rec.total_upserted
       IN IF StoreFailed(upserted)
          THEN _error_result(t, rec, "Failed to store vectors in Qdrant")
          ELSE /\ processing_status' =
                    update_status(processing_status, rec.document_id, "ready",
                                  ReadyCount(rec), None)
               /\ writer' = [writer EXCEPT ![rec.document_id] =
                                Some([run |-> rec.run, project_id |-> rec.project_id])]
               /\ th' = [th EXCEPT ![t] =
                           Returned(rec, ProcessingResult(rec.document_id, "ready",
                                                          ReadyCount(rec), None))]
    /\ UNCHANGED <<qdrant, is_connected, is_loaded,
                 engine, chunked, rechunked, split, combined, parsed, deleted>>

(* DocumentProcessor.delete_document called by an explicit deletion flow;    *)
(* a call that removes nothing leaves every variable unchanged               *)
DeleteDocument(project_id, document_id) ==
    /\ \E client_raises \in BOOLEAN :
         qdrant' = delete_document_chunks(qdrant, is_connected, project_id,
                                          document_id, client_raises).qdrant
    /\ qdrant' # qdrant
    /\ UNCHANGED <<processing_status, is_connected, is_loaded, th, writer,
                 engine, chunked, rechunked, split, combined, parsed, deleted>>

(* clear_status called by an explicit deletion flow; clearing an absent key  *)
(* leaves every variable unchanged                                           *)
ClearStatus(document_id) ==
    /\ processing_status' = clear_status(processing_status, document_id)
    /\ processing_status' # processing_status
    /\ writer' = [writer EXCEPT ![document_id] = None]
    /\ UNCHANGED <<qdrant, is_connected, is_loaded, th,
                 engine, chunked, rechunked, split, combined, parsed, deleted>>

Next ==
    \/ \E t \in Threads, p \in ProjectIds, d \in DocumentIds, f \in Filenames :
         Submit(t, p, d, f)
    \/ \E t \in Threads : Cleanup(t)
    \/ \E t \in Threads : Parse(t)
    \/ \E t \in Threads : Chunk(t)
    \/ \E t \in Threads : Embed(t)
    \/ \E t \in Threads : UpsertBegin(t)
    \/ \E t \in Threads : UpsertBatch(t)
    \/ \E t \in Threads : Finish(t)
    \/ \E p \in ProjectIds, d \in DocumentIds : DeleteDocument(p, d)
    \/ \E d \in DocumentIds : ClearStatus(d)

Spec == Init /\ [][Next]_vars

(* The process_document calls alone: no explicit deletion flow interferes. *)
NextRuns ==
    \/ \E t \in Threads, p \in ProjectIds, d \in DocumentIds, f \in Filenames :
         Submit(t, p, d, f)
    \/ \E t \in Threads : Cleanup(t)
    \/ \E t \in Threads : Parse(t)
    \/ \E t \in Threads : Chunk(t)
    \/ \E t \in Threads : Embed(t)
    \/ \E t \in Threads : UpsertBegin(t)
    \/ \E t \in Threads : UpsertBatch(t)
    \/ \E t \in Threads : Finish(t)

SpecRuns == Init /\ [][NextRuns]_vars

(* One step of call t after its start. Each step is a statement of the      *)
(* synchronous body of process_document or one collaborator call, which     *)
(* returns or raises; the thread that entered the call keeps running it.    *)
Step(t) ==
    \/ Cleanup(t)
    \/ Parse(t)
    \/ Chunk(t)
    \/ Embed(t)
    \/ UpsertBegin(t)
    \/ UpsertBatch(t)
    \/ Finish(t)

(* The calls for one document of one project, where some started call goes *)
(* on to its next step as long as one can. Starting a call stays the        *)
(* caller's choice: no fairness is required of Submit.                      *)
NextDoc ==
    \/ \E t \in Threads, f \in Filenames : Submit(t, <<"q">>, "d1", f)
    \/ \E t \in Threads : Step(t)

SpecDocFair == Init /\ [][NextDoc]_vars /\ WF_vars(\E t \in Threads : Step(t))

----------------------------------------------------------------------------
(* Chunking engine (app/services/chunker.py): texts are sequences of        *)
(* one-character strings, so that len, strip and the regular expressions    *)
(* are computed on characters.                                              *)

(* the characters \s and str.strip treat as whitespace *)
WhitespaceChars == {" ", "\n", "\t"}

Digits == <<"0", "1", "2", "3", "4", "5", "6", "7", "8", "9">>

(* the characters \w matches: \b lies between one of them and another character *)
WordChars == Range(UpperChars) \cup Range(LowerChars) \cup Range(Digits) \cup {"_"}

SetMax(S) == CHOOSE x \in S : \A y \in S : y <= x

RECURSIVE lstrip(_)
lstrip(s) == IF s # <<>> /\ Head(s) \in WhitespaceChars THEN lstrip(Tail(s)) ELSE s

RECURSIVE rstrip(_)
rstrip(s) ==
    IF s # <<>> /\ s[Len(s)] \in WhitespaceChars THEN rstrip(SubSeq(s, 1, Len(s) - 1)) ELSE s

(* str.strip() *)
strip(s) == rstrip(lstrip(s))

(* sep.join(parts) *)
RECURSIVE Join(_, _)
Join(sep, parts) ==
    IF parts = <<>> THEN <<>>
    ELSE IF Len(parts) = 1 THEN parts[1]
    ELSE parts[1] \o sep \o Join(sep, Tail(parts))

(* [p.strip() for p in parts if p.strip()] *)
StripAll(parts) ==
    SelectSeq([k \in 1..Len(parts) |-> strip(parts[k])], LAMBDA p : p # <<>>)

(* the last index of the run of whitespace that starts at i; i - 1 if none *)
RECURSIVE RunEnd(_, _)
RunEnd(text, i) ==
    IF i <= Len(text) /\ text[i] \in WhitespaceChars THEN RunEnd(text, i + 1) ELSE i - 1

(* the last line break among text[from..to]; 0 if none *)
LastNewline(text, from, to) ==
    LET js == {j \in from..to : text[j] = "\n"}
    IN IF js = {} THEN 0 ELSE SetMax(js)

(* r'\n\s*\n' matched at i: the index of the match's last character, 0 if   *)
(* it does not match there. The greedy \s* gives back down to the last line *)
(* break of the whitespace that follows text[i].                            *)
ParagraphBreak(text, i) ==
    IF text[i] # "\n" THEN 0 ELSE LastNewline(text, i + 1, RunEnd(text, i + 1))

(* re.split(r'\n\s*\n', text): the scan is at i, the open piece began at start *)
RECURSIVE SplitParagraphs(_, _, _)
SplitParagraphs(text, i, start) ==
    IF i > Len(text) THEN <<SubSeq(text, start, Len(text))>>
    ELSE LET e == ParagraphBreak(text, i)
         IN IF e > 0
            THEN <<SubSeq(text, start, i - 1)>> \o SplitParagraphs(text, e + 1, e + 1)
            ELSE SplitParagraphs(text, i + 1, start)

_split_at_paragraphs(text) == StripAll(SplitParagraphs(text, 1, 1))

ABBREVIATIONS ==
    {<<"M", "r">>, <<"M", "r", "s">>, <<"M", "s">>, <<"D", "r">>,
     <<"P", "r", "o", "f">>, <<"S", "r">>, <<"J", "r">>, <<"v", "s">>,
     <<"e", "t", "c">>, <<"I", "n", "c">>, <<"L", "t", "d">>, <<"C", "o">>}

(* the placeholder of a protected period, kept as one element of the text:  *)
(* none of the patterns applied to the protected text looks inside it       *)
DOT == "<<<DOT>>>"

(* rf'\b{abbrev}\.' matches with its period at k *)
AbbrevBefore(text, k, abbrev) ==
    LET s == k - Len(abbrev)
    IN /\ s >= 1
       /\ SubSeq(text, s, k - 1) = abbrev
       /\ s = 1 \/ text[s - 1] \notin WordChars

(* no abbreviation is protected *)
ProtectAbbreviations_none(text) == text

(* lines 190-196: the period after an abbreviation becomes the placeholder *)
ProtectAbbreviations(text) ==
    [k \in 1..Len(text) |->
        IF text[k] = "." /\ \E abbrev \in ABBREVIATIONS : AbbrevBefore(text, k, abbrev)
        THEN DOT ELSE text[k]]

(* line 199: re.sub(r'(\d)\.(\d)', ...), the matches taken left to right    *)
(* without overlap                                                          *)
RECURSIVE ProtectDecimals(_, _)
ProtectDecimals(text, i) ==
    IF i + 2 > Len(text) THEN text
    ELSE IF /\ text[i] \in Range(Digits)
            /\ text[i + 1] = "."
            /\ text[i + 2] \in Range(Digits)
         THEN ProtectDecimals([text EXCEPT ![i + 1] = DOT], i + 3)
         ELSE ProtectDecimals(text, i + 1)

(* SENTENCE_SPLIT_PATTERN matched at i: the index of the match's last       *)
(* character, 0 if it does not match there                                  *)
SentenceBreak(text, i) ==
    IF i <= 1 \/ text[i - 1] \notin {".", "!", "?"} THEN 0
    ELSE LET r == RunEnd(text, i)
         IN IF r >= i /\ r < Len(text) /\ text[r + 1] \in Range(UpperChars)
            THEN r                            \* (?<=[.!?])\s+(?=[A-Z])
            ELSE LastNewline(text, i, r)      \* (?<=[.!?])\s*\n

(* SENTENCE_SPLIT_PATTERN.split(text) *)
RECURSIVE SplitSentences(_, _, _)
SplitSentences(text, i, start) ==
    IF i > Len(text) THEN <<SubSeq(text, start, Len(text))>>
    ELSE LET e == SentenceBreak(text, i)
         IN IF e > 0
            THEN <<SubSeq(text, start, i - 1)>> \o SplitSentences(text, e + 1, e + 1)
            ELSE SplitSentences(text, i + 1, start)

(* s.replace('<<<DOT>>>', '.') *)
Restore(s) == [k \in 1..Len(s) |-> IF s[k] = DOT THEN "." ELSE s[k]]

_split_at_sentences(text) ==
    LET protected_text == ProtectDecimals(ProtectAbbreviations(text), 1)
        sentences == SplitSentences(protected_text, 1, 1)
    IN StripAll([k \in 1..Len(sentences) |-> Restore(sentences[k])])

(* ChunkingEngine.__init__, lines 67-68: sizes in tokens become characters *)
ChunkingEngine(chunk_size, chunk_overlap) ==
    [chunk_size_chars |-> chunk_size * 4, chunk_overlap_chars |-> chunk_overlap * 4]

(* "\n\n", the separator of the parts of a chunk *)
BlankLine == <<"\n", "\n">>

(* LastChars taking the characters from the front of the part: part[:remaining] *)
LastChars_first(part, remaining) ==
    SubSeq(part, 1, IF remaining < Len(part) THEN remaining ELSE Len(part))

(* part[-remaining:] for remaining > 0 *)
LastChars(part, remaining) ==
    SubSeq(part, (IF remaining < Len(part) THEN Len(part) - remaining ELSE 0) + 1, Len(part))

(* _get_overlap_parts, lines 271-281: the walk is at parts[k], going backwards *)
RECURSIVE OverlapWalk(_, _, _, _, _)
OverlapWalk(self, parts, k, overlap_parts, overlap_length) ==
    IF k = 0
    THEN [overlap_parts |-> overlap_parts, overlap_length |-> overlap_length]
    ELSE LET part == parts[k]
         IN IF overlap_length + Len(part) <= self.chunk_overlap_chars
            THEN OverlapWalk(self, parts, k - 1, <<part>> \o overlap_parts,
                             overlap_length + Len(part) + 2)
            ELSE LET remaining == self.chunk_overlap_chars - overlap_length
                 IN IF remaining > 0 /\ Len(part) > 0
                    THEN [overlap_parts |-> <<LastChars(part, remaining)>> \o overlap_parts,
                          overlap_length |-> overlap_length + remaining]
                    ELSE [overlap_parts |-> overlap_parts,
                          overlap_length |-> overlap_length]

(* _get_overlap_parts that carries the whole closed chunk over *)
_get_overlap_parts_all(self, parts) ==
    [overlap_parts |-> parts, overlap_length |-> Len(Join(BlankLine, parts)) + 2]

(* _get_overlap_parts that carries nothing over *)
_get_overlap_parts_none(self, parts) == [overlap_parts |-> <<>>, overlap_length |-> 0]

_get_overlap_parts(self, parts) == OverlapWalk(self, parts, Len(parts), <<>>, 0)

(* _combine_with_overlap, lines 229-253: the loop is at parts[i]. Each chunk *)
(* is kept as the list of its parts together with the overlap it was opened *)
(* with (seed), which is a prefix of that list.                             *)
RECURSIVE CombineLoop(_, _, _, _, _, _, _)
CombineLoop(self, parts, i, chunks, current_chunk_parts, current_length, seed) ==
    IF i > Len(parts)
    THEN IF current_chunk_parts # <<>>
         THEN Append(chunks, [parts |-> current_chunk_parts, seed |-> seed])
         ELSE chunks
    ELSE LET part == parts[i]
             part_length == Len(part)
             separator_length == IF current_chunk_parts # <<>> THEN 2 ELSE 0
         IN IF /\ current_length + separator_length + part_length > self.chunk_size_chars
               /\ current_chunk_parts # <<>>
            THEN LET overlap == _get_overlap_parts(self, current_chunk_parts)
                 IN CombineLoop(self, parts, i + 1,
                                Append(chunks, [parts |-> current_chunk_parts, seed |-> seed]),
                                Append(overlap.overlap_parts, part),
                                overlap.overlap_length + separator_length + part_length,
                                overlap.overlap_parts)
            ELSE CombineLoop(self, parts, i + 1, chunks,
                             Append(current_chunk_parts, part),
                             current_length + separator_length + part_length,
                             seed)

(* CombineTrace without lines 250-253: the chunk still open when the parts  *)
(* run out is forgotten                                                     *)
CombineTrace_forgetting(self, parts) ==
    LET chunks == CombineLoop(self, parts, 1, <<>>, <<>>, 0, <<>>)
    IN SubSeq(chunks, 1, Len(chunks) - 1)

(* the chunks of _combine_with_overlap as lists of parts, with their seeds *)
CombineTrace(self, parts) == CombineLoop(self, parts, 1, <<>>, <<>>, 0, <<>>)

_combine_with_overlap(self, parts) ==
    LET chunks == CombineTrace(self, parts)
    IN [k \in 1..Len(chunks) |-> Join(BlankLine, chunks[k].parts)]

(* _chunk_section, lines 150-157: paragraphs that are too long become sentences *)
RECURSIVE ProcessedParts(_, _)
ProcessedParts(self, paragraphs) ==
    IF paragraphs = <<>> THEN <<>>
    ELSE LET para == Head(paragraphs)
         IN (IF Len(para) <= self.chunk_size_chars
             THEN <<para>>
             ELSE _split_at_sentences(para)) \o ProcessedParts(self, Tail(paragraphs))

(* _chunk_section without the shortcut of lines 142-144 for a short content *)
_chunk_section_unconditional(self, section) ==
    _combine_with_overlap(self,
        ProcessedParts(self, _split_at_paragraphs(section.content)))

_chunk_section(self, section) ==
    LET content == section.content
    IN IF Len(content) <= self.chunk_size_chars
       THEN <<content>>
       ELSE _combine_with_overlap(self,
                ProcessedParts(self, _split_at_paragraphs(content)))

(* ParsedSection (app/services/parser.py): page_number and section_title  *)
(* are Optional, metadata is a dict                                         *)
ParsedSection(content, page_number, section_title, doc_type, metadata) ==
    [content |-> content, page_number |-> page_number, section_title |-> section_title,
     doc_type |-> doc_type, metadata |-> metadata]

(* dict.get(key) *)
dict_get(dict, key) == IF key \in DOMAIN dict THEN Some(dict[key]) ELSE None

(* str(n) of a non-negative integer *)
RECURSIVE NatToStr(_)
NatToStr(n) ==
    IF n < 10 THEN <<Digits[n + 1]>>
    ELSE NatToStr(n \div 10) \o <<Digits[(n % 10) + 1]>>

(* str(n) of an integer, as the f-string of line 307 formats it *)
IntToStr(n) == IF n < 0 THEN <<"-">> \o NatToStr(-n) ELSE NatToStr(n)

(* "if x:" on an Optional[int]: None and 0 are false *)
TruthyInt(x) == x # None /\ x[1] # 0

(* "if x:" on an Optional[str]: None and the empty string are false *)
TruthyStr(x) == x # None /\ x[1] # <<>>

(* f"[Document: {document_name}]" *)
DocumentTag(document_name) ==
    <<"[", "D", "o", "c", "u", "m", "e", "n", "t", ":", " ">> \o document_name \o <<"]">>

(* f"[Page {page_number}]" *)
PageTag(page_number) ==
    <<"[", "P", "a", "g", "e", " ">> \o IntToStr(page_number) \o <<"]">>

(* f"[Section: {section_title}]" *)
SectionTag(section_title) ==
    <<"[", "S", "e", "c", "t", "i", "o", "n", ":", " ">> \o section_title \o <<"]">>

_add_context_prefix(chunk_text, section, document_name) ==
    LET prefix_parts ==
            <<DocumentTag(document_name)>>
            \o (IF TruthyInt(section.page_number)
                THEN <<PageTag(section.page_number[1])>> ELSE <<>>)
            \o (IF TruthyStr(section.section_title)
                THEN <<SectionTag(section.section_title[1])>> ELSE <<>>)
        prefix == Join(<<" ">>, prefix_parts)
    IN prefix \o <<"\n">> \o chunk_text

(* the dataclass Chunk: chunk_id is a fresh uuid4, here the number of the   *)
(* call and the position of the chunk in its list                           *)
NewChunk(chunk_id, content, document_id, document_name, metadata) ==
    [chunk_id |-> chunk_id, content |-> content, document_id |-> document_id,
     document_name |-> document_name, metadata |-> metadata]

(* is_table that takes no section for a table *)
is_table_never(section) == FALSE

(* line 94: is_table = section.metadata.get("type") == "table" *)
is_table(section) == dict_get(section.metadata, "type") = Some("table")

(* NextChunkIndex that leaves the counter where it is *)
NextChunkIndex_stuck(chunk_index) == chunk_index

(* line 125: chunk_index += 1 *)
NextChunkIndex(chunk_index) == chunk_index + 1

(* chunk_document, lines 103-125: the loop is at section_chunks[k]; acc holds *)
(* the list chunks and the counter chunk_index                               *)
RECURSIVE SectionLoop(_, _, _, _, _)
SectionLoop(section, section_chunks, k, args, acc) ==
    IF k > Len(section_chunks) THEN acc
    ELSE LET prefixed_content ==
                 _add_context_prefix(section_chunks[k], section, args.document_name)
             chunk ==
                 NewChunk(<<args.call, Len(acc.chunks) + 1>>, prefixed_content,
                          args.document_id, args.document_name,
                          [page_number |-> section.page_number,
                           section_title |-> section.section_title,
                           chunk_index |-> acc.chunk_index,
                           char_count |-> Len(prefixed_content),
                           token_estimate |-> Len(prefixed_content) \div 4,
                           doc_type |-> section.doc_type,
                           is_table |-> is_table(section)])
         IN SectionLoop(section, section_chunks, k + 1, args,
                        [chunks |-> Append(acc.chunks, chunk),
                         chunk_index |-> NextChunkIndex(acc.chunk_index)])

(* chunk_document, lines 92-101: the loop is at sections[s] *)
RECURSIVE DocumentLoop(_, _, _, _, _)
DocumentLoop(self, sections, s, args, acc) ==
    IF s > Len(sections) THEN acc.chunks
    ELSE LET section == sections[s]
             section_chunks == IF is_table(section)
                               THEN <<section.content>>
                               ELSE _chunk_section(self, section)
         IN DocumentLoop(self, sections, s + 1, args,
                         SectionLoop(section, section_chunks, 1, args, acc))

(* chunk_document with a counter that is kept from one call to the next *)
chunk_document_counting(self, sections, document_id, document_name, call) ==
    DocumentLoop(self, sections, 1,
                 [document_id |-> document_id, document_name |-> document_name,
                  call |-> call],
                 [chunks |-> <<>>, chunk_index |-> call - 1])

(* chunk_document; call numbers the calls, for the chunk ids *)
chunk_document(self, sections, document_id, document_name, call) ==
    DocumentLoop(self, sections, 1,
                 [document_id |-> document_id, document_name |-> document_name,
                  call |-> call],
                 [chunks |-> <<>>, chunk_index |-> 0])

(* Inputs of the chunking engine *)

(* chunk_size and chunk_overlap in tokens: 4 and 8 characters a chunk, no   *)
(* overlap or 4 characters of it                                            *)
ChunkSizes == {1, 2}
ChunkOverlaps == {0, 1}

(* Texts are pieces put together with joints: no piece, a word, a sentence  *)
(* and a word longer than the smallest chunk; a space, a line break and a   *)
(* blank line with a space in it.                                           *)
Pieces == {<<>>, <<"a">>, <<"B", "b", ".">>, <<"c", "d", "e", "f", "g">>}
Joints == {<<" ">>, <<"\n">>, <<"\n", " ", "\n">>}

RECURSIVE TextsOf(_)
TextsOf(k) ==
    IF k = 1 THEN Pieces
    ELSE {text \o joint \o piece : text \in TextsOf(k - 1), joint \in Joints, piece \in Pieces}

Texts == UNION {TextsOf(k) : k \in 1..MaxPieces}

EmptyDict == <<>>
TableDict == "type" :> "table"

PageNumbers == {None, Some(0), Some(5), Some(12), Some(-3)}
SectionTitles == {None, Some(<<>>), Some(<<"I", "n">>)}
DocumentNames == {<<"r", ".", "m", "d">>}

(* sections of every text, with no page and no title *)
PlainSections ==
    {ParsedSection(content, None, None, "txt", metadata) :
        content \in Texts, metadata \in {EmptyDict, TableDict}}

(* sections of one piece with every page number, title and metadata *)
RichSections ==
    {ParsedSection(content, page_number, section_title, "pdf", metadata) :
        content \in Pieces, page_number \in PageNumbers, section_title \in SectionTitles,
        metadata \in {EmptyDict, TableDict, "type" :> "text"}}

(* the sections of the documents of several sections: empty, short, and two *)
(* sentences, each as text and as table                                     *)
FewSections ==
    {ParsedSection(content, None, None, "txt", metadata) :
        content \in {<<>>, <<"a">>, <<"B", "b", ".", " ", "B", "b", ".">>},
        metadata \in {EmptyDict, TableDict}}

Documents ==
    {<<>>}
    \cup {<<section>> : section \in PlainSections \cup RichSections}
    \cup UNION {[1..n -> FewSections] : n \in 2..MaxDocSections}

(* self.chunker = ChunkingEngine(chunk_size, chunk_overlap) *)
NewChunkingEngine(chunk_size, chunk_overlap) ==
    /\ engine = None
    /\ engine' = Some(ChunkingEngine(chunk_size, chunk_overlap))
    /\ UNCHANGED <<processing_status, qdrant, is_connected, is_loaded, th, writer, chunked,
                   rechunked, split, combined, parsed, deleted>>

(* chunks = self.chunker.chunk_document(sections, document_id, document_name) *)
ChunkDocument(sections, document_id, document_name) ==
    /\ engine # None
    /\ chunked = None
    /\ chunked' = Some([sections |-> sections, document_id |-> document_id,
                        document_name |-> document_name,
                        chunks |-> chunk_document(engine[1], sections, document_id,
                                                  document_name, 1)])
    /\ UNCHANGED <<processing_status, qdrant, is_connected, is_loaded, th, writer, engine,
                   rechunked, split, combined, parsed, deleted>>

(* the same call made once more, as when the document is submitted again *)
ChunkDocumentAgain ==
    /\ engine # None
    /\ chunked # None
    /\ rechunked = None
    /\ rechunked' = Some(chunk_document(engine[1], chunked[1].sections,
                                        chunked[1].document_id,
                                        chunked[1].document_name, 2))
    /\ UNCHANGED <<processing_status, qdrant, is_connected, is_loaded, th, writer, engine,
                   chunked, split, combined, parsed, deleted>>

(* The chunking engine on its own: the orchestrator stays as constructed,  *)
(* with a connected store and a loaded model.                              *)
InitChunker == Init /\ is_connected /\ is_loaded

NextChunker ==
    \/ \E chunk_size \in ChunkSizes, chunk_overlap \in ChunkOverlaps :
         NewChunkingEngine(chunk_size, chunk_overlap)
    \/ /\ engine # None /\ chunked = None
       /\ \E sections \in Documents, document_name \in DocumentNames :
            ChunkDocument(sections, "d1", document_name)
    \/ ChunkDocumentAgain

SpecChunker == InitChunker /\ [][NextChunker]_vars

----------------------------------------------------------------------------
(* Inputs of _split_at_sentences *)

(* the longest text given to _split_at_sentences, in words *)
MaxWords == 3

(* an abbreviation, sentences ending in each of the three marks, a word, a   *)
(* decimal and a number at the end of a sentence                            *)
Words ==
    {<<"D", "r", ".">>, <<"H", "i", ".">>, <<"E", "h", "?">>, <<"n", "o", "!">>,
     <<"o", "k">>, <<"3", ".", "5">>, <<"7", ".">>}

(* what stands between two words: nothing, a space, a line break *)
Gaps == {<<>>, <<" ">>, <<"\n">>}

RECURSIVE WordsOf(_)
WordsOf(k) ==
    IF k = 1 THEN Words
    ELSE {text \o gap \o word : text \in WordsOf(k - 1), gap \in Gaps, word \in Words}

(* the texts of tests/test_chunker.py *)
TestAbbreviations ==
    <<"D", "r", ".", " ", "S", "m", "i", "t", "h", " ", "w", "e", "n", "t", " ",
      "t", "o", " ", "t", "h", "e", " ", "s", "t", "o", "r", "e", ".", " ",
      "H", "e", " ", "m", "e", "t", " ", "M", "r", ".", " ",
      "J", "o", "n", "e", "s", " ", "t", "h", "e", "r", "e", ".">>

TestDecimal ==
    <<"T", "h", "e", " ", "v", "a", "l", "u", "e", " ", "i", "s", " ",
      "3", ".", "1", "4", "1", "5", "9", ".", " ",
      "T", "h", "i", "s", " ", "i", "s", " ", "p", "i", ".">>

(* the texts given to _split_at_sentences: those of the tests, and the     *)
(* texts of up to n words                                                   *)
SentenceTexts(n) ==
    {<<>>, TestAbbreviations, TestDecimal} \cup UNION {WordsOf(k) : k \in 1..n}

(* sentences = chunker._split_at_sentences(text) *)
SplitAtSentences(text) ==
    /\ engine # None
    /\ split = None
    /\ split' = Some([text |-> text, sentences |-> _split_at_sentences(text)])
    /\ UNCHANGED <<processing_status, qdrant, is_connected, is_loaded, th, writer, engine,
                   chunked, rechunked, combined, parsed, deleted>>

(* The sentence splitter on its own, on the engine of the tests' fixture:   *)
(* ChunkingEngine(chunk_size=20, chunk_overlap=5)                           *)
NextSentences ==
    \/ NewChunkingEngine(20, 5)
    \/ /\ engine # None /\ split = None
       /\ \E text \in SentenceTexts(MaxWords) : SplitAtSentences(text)

SpecSentences == InitChunker /\ [][NextSentences]_vars

----------------------------------------------------------------------------
(* Document parser (app/services/parser.py, app/utils/text_cleaner.py) *)

(* the characters str.isalnum accepts *)
AlnumChars == Range(UpperChars) \cup Range(LowerChars) \cup Range(Digits)

(* is_meaningful_text(text) with min_length = 10, max_non_alpha_ratio = 0.9: *)
(* alpha_count / total_count < 1 - 0.9 is alpha_count * 10 < total_count     *)
is_meaningful_text(text) ==
    LET stripped == strip(text)
        alpha_count == Cardinality({k \in 1..Len(stripped) : stripped[k] \in AlnumChars})
        total_count == Len(stripped)
    IN /\ text # <<>>
       /\ stripped # <<>>
       /\ Len(stripped) >= 10
       /\ ~(alpha_count * 10 < total_count)

(* the keys of DocumentParser._parsers *)
_parsers == {"pdf", "docx", "csv", "txt", "md"}

(* os.stat errors for which Path.exists() answers False, and every other    *)
(* one, which it raises                                                     *)
IgnoredErrnos == {"ENOENT", "ENOTDIR", "EBADF", "ELOOP"}

(* parse returned sections *)
ParseReturned(sections) == [raised |-> None, sections |-> sections]
(* parse raised e *)
ParseRaised(e) == [raised |-> Some(e), sections |-> <<>>]

(* parser(file_path), lines 80-81: what the parser of the format extracts   *)
(* from the file, each content as a section of that format                  *)
FormatParser(file, type) ==
    [k \in 1..Len(file.extracted) |->
        ParsedSection(file.extracted[k], None, None, type, EmptyDict)]

(* DocumentParser.parse(file_path, file_type). The file at file_path is     *)
(* given by what os.stat says of it ("ok" or an errno) and by what the      *)
(* parser of its format does with it: raise, or extract contents.           *)
parse(file, file_type) ==
    LET type == Str(LStrip(Lower(file_type), "."))
    IN IF type \notin _parsers THEN ParseReturned(<<>>)
       ELSE IF file.stat # "ok" /\ file.stat \notin IgnoredErrnos
            THEN ParseRaised("OSError")                  \* line 75, outside the try
       ELSE IF file.stat # "ok" THEN ParseReturned(<<>>)
       ELSE IF file.raises THEN ParseReturned(<<>>)
       ELSE ParseReturned(SelectSeq(FormatParser(file, type),
                                    LAMBDA s : is_meaningful_text(s.content)))

(* Inputs of the parser *)

(* the longest list of sections a format parser returns *)
MaxParsed == 2

Repeat(c, n) == [k \in 1..n |-> c]

(* extracted contents: none, blank, too short, ten letters, one letter in   *)
(* ten characters, no letter in ten characters                              *)
Contents ==
    {<<>>, Repeat(" ", 10), <<"a", "b", "c">>, Repeat("a", 10),
     <<"a">> \o Repeat("-", 9), Repeat("-", 10)}

FileTypes ==
    {<<"t", "x", "t">>, <<".", "T", "X", "T">>, <<"p", "d", "f">>, <<"m", "d">>,
     <<"c", "s", "v">>, <<"d", "o", "c", "x">>, <<"x", "y", "z">>, <<>>}

StatResults == {"ok", "ENOENT", "ENOTDIR", "ELOOP", "ENAMETOOLONG", "EACCES"}

Extractions == UNION {[1..n -> Contents] : n \in 0..MaxParsed}

Files ==
    {[stat |-> stat, raises |-> TRUE, extracted |-> <<>>] : stat \in StatResults}
    \cup {[stat |-> stat, raises |-> FALSE, extracted |-> extracted] :
            stat \in StatResults, extracted \in Extractions}

(* sections = self.parser.parse(file_path, file_ext) *)
ParseFile(file, file_type) ==
    /\ parsed = None
    /\ parsed' = Some([file |-> file, file_type |-> file_type,
                       result |-> parse(file, file_type)])
    /\ UNCHANGED <<processing_status, qdrant, is_connected, is_loaded, th, writer, engine,
                   chunked, rechunked, split, combined, deleted>>

NextParser ==
    /\ parsed = None
    /\ \E file \in Files, file_type \in FileTypes : ParseFile(file, file_type)

SpecParser == InitChunker /\ [][NextParser]_vars

----------------------------------------------------------------------------
(* Inputs of _combine_with_overlap *)

(* the longest list of parts given to _combine_with_overlap *)
MaxParts == 5

(* paragraphs and sentences, stripped and not empty, of 1, 2, 3 and 5       *)
(* characters: the last is longer than the smallest chunk                   *)
PartTexts ==
    {<<"a">>, <<"b", "c">>, <<"d", "e", "f">>, <<"g", "h", "i", "j", "k">>}

PartLists == UNION {[1..n -> PartTexts] : n \in 0..MaxParts}

(* chunks = self._combine_with_overlap(processed_parts) *)
CombineWithOverlap(parts) ==
    /\ engine # None
    /\ combined = None
    /\ combined' = Some([parts |-> parts,
                         chunks |-> _combine_with_overlap(engine[1], parts)])
    /\ UNCHANGED <<processing_status, qdrant, is_connected, is_loaded, th, writer, engine,
                   chunked, rechunked, split, parsed, deleted>>

NextCombine ==
    \/ \E chunk_size \in ChunkSizes, chunk_overlap \in ChunkOverlaps :
         NewChunkingEngine(chunk_size, chunk_overlap)
    \/ /\ engine # None /\ combined = None
       /\ \E parts \in PartLists : CombineWithOverlap(parts)

SpecCombine == InitChunker /\ [][NextCombine]_vars

----------------------------------------------------------------------------
(* The deletion flow (DocumentProcessor.delete_document called from outside *)
(* process_document), with the value it returns.                            *)

(* DocumentProcessor.delete_document: the registry and the store it leaves, *)
(* and the returned count                                                   *)
delete_document(ps, q, connected, project_id, document_id, client_raises) ==
    LET r == delete_document_chunks(q, connected, project_id, document_id, client_raises)
    IN [processing_status |-> ps, qdrant |-> r.qdrant, ret |-> r.ret]

(* A caller other than process_document calls delete_document and sees     *)
(* what comes of it: the returned count, or the exception.                  *)
DeleteDocumentCall(project_id, document_id) ==
    /\ deleted = None
    /\ \/ \E client_raises \in BOOLEAN :
            LET r == delete_document(processing_status, qdrant, is_connected,
                                     project_id, document_id, client_raises)
            IN /\ processing_status' = r.processing_status
               /\ qdrant' = r.qdrant
               /\ deleted' = Some([project_id |-> project_id,
                                   document_id |-> document_id,
                                   ret |-> Some(r.ret), raised |-> None])
       \/ \E e \in ExcTexts :
            \* raised outside the try of lines 290-333 (the import, the name)
            /\ is_connected
            /\ deleted' = Some([project_id |-> project_id, document_id |-> document_id,
                                ret |-> None, raised |-> Some(e)])
            /\ UNCHANGED <<processing_status, qdrant>>
    /\ UNCHANGED <<is_connected, is_loaded, th, writer,
                   engine, chunked, rechunked, split, combined, parsed>>

(* The process_document calls for a supported file of one document, in     *)
(* either project, and one delete_document call made at any moment.         *)
NextDelete ==
    \/ \E t \in Threads, p \in ProjectIds :
         Submit(t, p, "d1", <<"r", ".", "P", "D", "F">>)
    \/ \E t \in Threads : Step(t)
    \/ \E p \in ProjectIds : DeleteDocumentCall(p, "d1")

SpecDelete == Init /\ [][NextDelete]_vars

----------------------------------------------------------------------------
(* Vocabulary of the properties *)

(* the step in which call t returns *)
Returns(t) == th[t].pc # "done" /\ th'[t].pc = "done"

(* call t has started with a file name of a supported type *)
Supported(r) == r.pc # "idle" /\ r.file_ext \in ALLOWED_EXTENSIONS

StatusWrites == {"update_status:processing", "update_status:ready", "update_status:error"}

Collaborators == {"delete_document_chunks", "parse", "chunk_document",
                  "embed_batch", "upsert_chunks"}

CountCalls(r, names) == Cardinality({k \in 1..Len(r.calls) : r.calls[k] \in names})

(* the last collaborator a returned call invoked: the entry before its final write *)
LastStage(r) == IF Len(r.calls) >= 2 THEN r.calls[Len(r.calls) - 1] ELSE ""

RegistryHas(ps, document_id, status, chunk_count, error_message) ==
    get_status(ps, document_id) =
        Some(DocumentStatusResponse(document_id, status, chunk_count, error_message))

(* the points of the store that call t upserted *)
PointsOfRun(q, t) == {pt \in q.points : pt.chunk_id[1] = t}

----------------------------------------------------------------------------
(* C1: process_document never raises: every call returns a ProcessingResult, *)
(* and when a collaborator raised an exception, at whatever stage, the       *)
(* result is status 'error', chunk_count 0, error_message the exception's    *)
(* text, and the registry entry of the document is that same error.          *)
C1_NeverRaises ==
    [][\A t \in Threads : Returns(t) =>
         LET r == th'[t]
         IN /\ r.result # None
            /\ r.raised # None =>
                 /\ r.result = Some(ProcessingResult(r.document_id, "error", 0, r.raised))
                 /\ RegistryHas(processing_status', r.document_id, "error", 0, r.raised)]_vars

(* C1 witness: one call ended by an exception of the store's delete, another *)
(* by an exception of the store's upsert.                                    *)
C1_Witness ==
    \E t, u \in Threads :
        /\ th[t].pc = "done" /\ th[t].raised # None
        /\ LastStage(th[t]) = "delete_document_chunks"
        /\ th[u].pc = "done" /\ th[u].raised # None
        /\ LastStage(th[u]) = "upsert_chunks"

(* C2 (as claimed): when a call that resubmits a document a previous call    *)
(* left 'ready', and that no other call overlaps, returns 'ready', the store *)
(* holds for its (project_id, document_id) only the chunks this call         *)
(* upserted, and chunk_count counts none but this call's chunks.             *)
C2_ResubmitReplaces ==
    [][\A t \in Threads :
         (Returns(t) /\ th'[t].prev # None /\ th'[t].alone
            /\ th'[t].result[1].status = "ready") =>
         LET r == th'[t]
         IN /\ PointsOf(qdrant', _get_collection_name(r.project_id), r.document_id)
                 \subseteq PointsOfRun(qdrant', t)
            /\ r.result[1].chunk_count <= r.chunks]_vars

(* C3: in every call with a supported extension the first thing done is the  *)
(* registry write 'processing', the second is delete_document_chunks, which  *)
(* is invoked exactly once whatever the state of the document, and so before *)
(* the parser is called and before any upsert of the call.                   *)
C3_CleanupFirst ==
    \A t \in Threads : Supported(th[t]) =>
        LET r == th[t]
        IN /\ Len(r.calls) >= 1 /\ r.calls[1] = "update_status:processing"
           /\ r.pc # "cleanup" => Len(r.calls) >= 2 /\ r.calls[2] = "delete_document_chunks"
           /\ CountCalls(r, {"delete_document_chunks"}) = (IF r.pc = "cleanup" THEN 0 ELSE 1)
           /\ \A k \in 1..Len(r.calls) : r.calls[k] \in {"parse", "upsert_chunks"} => k > 2

(* C3 witness: a resubmit of a 'ready' document has gone through parse and upsert. *)
C3_Witness ==
    \E t \in Threads :
        /\ th[t].pc = "done" /\ th[t].prev # None
        /\ {"parse", "upsert_chunks"} \subseteq Range(th[t].calls)

(* C4: calls for the same (project_id, document_id) are not mutually         *)
(* excluded.  When each of two such calls began its upsert after the other's *)
(* cleanup and both returned 'ready', the store holds the chunks of both     *)
(* (every chunk each of them reported), while the registry's chunk_count is  *)
(* the count of the call that wrote last: less than what the store holds.    *)
C4_ConcurrentDuplicates ==
    \A t, u \in Threads :
        (/\ t # u
         /\ th[t].pc = "done" /\ th[u].pc = "done"
         /\ th[t].document_id = th[u].document_id
         /\ _get_collection_name(th[t].project_id) = _get_collection_name(th[u].project_id)
         /\ th[t].peer_cleaned /\ th[u].peer_cleaned
         /\ th[t].result[1].status = "ready" /\ th[u].result[1].status = "ready") =>
        LET d == th[t].document_id
            stored == PointsOf(qdrant, _get_collection_name(th[t].project_id), d)
        IN /\ Cardinality(PointsOfRun(qdrant, t)) = th[t].result[1].chunk_count
           /\ Cardinality(PointsOfRun(qdrant, u)) = th[u].result[1].chunk_count
           /\ stored = PointsOfRun(qdrant, t) \cup PointsOfRun(qdrant, u)
           /\ writer[d] # None
           /\ RegistryHas(processing_status, d, "ready",
                          th[writer[d][1].run].result[1].chunk_count, None)
           /\ processing_status[d].chunk_count < Cardinality(stored)

(* C4 witness: two calls for the same document raced past each other's       *)
(* cleanup, both are 'ready', and the store holds more chunks of the         *)
(* document than the registry counts.                                        *)
C4_Witness ==
    \E t, u \in Threads :
        /\ t # u
        /\ th[t].pc = "done" /\ th[u].pc = "done"
        /\ th[t].document_id = th[u].document_id
        /\ th[t].project_id = th[u].project_id
        /\ th[t].peer_cleaned /\ th[u].peer_cleaned
        /\ th[t].result[1].status = "ready" /\ th[u].result[1].status = "ready"
        /\ PointsOfRun(qdrant, t) # {} /\ PointsOfRun(qdrant, u) # {}
        /\ processing_status[th[t].document_id].chunk_count
             < Cardinality(PointsOf(qdrant, _get_collection_name(th[t].project_id),
                                    th[t].document_id))

(* C5: a file name whose lower-cased extension is not supported makes        *)
(* process_document return at once: status 'error', chunk_count 0, message   *)
(* "Unsupported file type: .<ext>" with the lower-cased extension; the only  *)
(* thing the call does is the registry write of that error (never            *)
(* 'processing', no collaborator called), and the store is left as it was.   *)
C5_Message(filename) ==
    CASE filename = <<"x", ".", "E", "x", "e">> -> "Unsupported file type: .exe"
      [] filename = <<"v", ".", "1", "/", "R", "E", "A", "D", "M", "E">>
                                                 -> "Unsupported file type: ."

C5_UnsupportedNames ==
    { <<"x", ".", "E", "x", "e">>,
      <<"v", ".", "1", "/", "R", "E", "A", "D", "M", "E">> }

C5_Unsupported ==
    [][\A t \in Threads :
         (th[t].pc = "idle" /\ th'[t].pc # "idle"
            /\ th'[t].filename \in C5_UnsupportedNames) =>
         LET r == th'[t]
             msg == Some(C5_Message(r.filename))
         IN /\ r.pc = "done"
            /\ r.result = Some(ProcessingResult(r.document_id, "error", 0, msg))
            /\ RegistryHas(processing_status', r.document_id, "error", 0, msg)
            /\ r.calls = <<"update_status:error">>
            /\ qdrant' = qdrant]_vars

(* C5 witness: an unsupported file was submitted for a document that a       *)
(* previous call had left 'ready' and whose chunks are still in the store.   *)
C5_Witness ==
    \E t \in Threads :
        /\ th[t].pc = "done" /\ th[t].filename \in C5_UnsupportedNames
        /\ th[t].prev # None
        /\ PointsOf(qdrant, _get_collection_name(th[t].project_id), th[t].document_id) # {}

(* C6 (as claimed): the registry is written at every stage boundary: each    *)
(* collaborator call a run has completed is followed by a registry write     *)
(* before the next stage starts.                                             *)
C6_WrittenAtEveryStage ==
    \A t \in Threads : Supported(th[t]) =>
        \A k \in 1..(Len(th[t].calls) - 1) :
            th[t].calls[k] \in Collaborators => th[t].calls[k + 1] \in StatusWrites

(* C6 (amended): a run with a supported extension writes the registry        *)
(* exactly twice: 'processing' before the cleanup and the terminal 'ready'   *)
(* or 'error' when it returns; no step in between changes the registry.      *)
C6_WrittenAtStartAndEnd ==
    [][/\ \A t \in Threads : Supported(th'[t]) =>
            LET r == th'[t]
            IN /\ r.calls[1] = "update_status:processing"
               /\ CountCalls(r, StatusWrites) = (IF r.pc = "done" THEN 2 ELSE 1)
               /\ r.pc = "done" =>
                    r.calls[Len(r.calls)] \in {"update_status:ready", "update_status:error"}
       /\ \A t \in Threads :
            (/\ th[t].pc # "idle" /\ th'[t].pc # "done"
             /\ (th'[t].pc # th[t].pc \/ th'[t].i # th[t].i)) =>
            processing_status' = processing_status]_vars

(* C6 witness: a run is past the embed stage and the registry still holds    *)
(* the 'processing' entry written at its start.                              *)
C6_Witness ==
    \E t \in Threads :
        /\ th[t].pc = "upsert"
        /\ RegistryHas(processing_status, th[t].document_id, "processing", 0, None)

(* C7 (as claimed): an upserted count of 0 ends the run in 'error' with the  *)
(* message exactly "Failed to store vectors" and chunk_count 0.              *)
C7_FailedToStore ==
    [][\A t \in Threads :
         (th[t].pc = "stored" /\ th[t].total_upserted = 0 /\ th'[t].pc # "stored") =>
         th'[t].result = Some(ProcessingResult(th[t].document_id, "error", 0,
                                               Some("Failed to store vectors")))]_vars

(* C7 (amended): an upserted count of 0 ends the run in 'error' with the     *)
(* message exactly "Failed to store vectors in Qdrant" and chunk_count 0,    *)
(* in the result and in the registry.                                        *)
C7_FailedToStoreInQdrant ==
    [][\A t \in Threads :
         (th[t].pc = "stored" /\ th[t].total_upserted = 0 /\ th'[t].pc # "stored") =>
         /\ th'[t].pc = "done"
         /\ th'[t].result = Some(ProcessingResult(th[t].document_id, "error", 0,
                                                  Some("Failed to store vectors in Qdrant")))
         /\ RegistryHas(processing_status', th[t].document_id, "error", 0,
                        Some("Failed to store vectors in Qdrant"))]_vars

(* C7 witness: a run whose upsert reported 0 has returned. *)
C7_Witness ==
    \E t \in Threads :
        /\ th[t].pc = "done" /\ th[t].raised = None
        /\ LastStage(th[t]) = "upsert_chunks"
        /\ th[t].result[1].status = "error"

(* C8: a run that the parser ends (zero sections), the chunker ends (zero    *)
(* chunks) or the embedder ends (vector count differs from chunk count),     *)
(* without an exception, returns status 'error', chunk_count 0 and the       *)
(* stage's fixed message, also written to the registry; no run goes on to    *)
(* the next stage with zero sections, zero chunks or a count mismatch.       *)
C8_Message(stage) ==
    CASE stage = "parse" -> "No content could be extracted from the document"
      [] stage = "chunk" -> "Document could not be chunked"
      [] stage = "embed" -> "Embedding generation failed"

C8_ContentErrors ==
    [][/\ \A t \in Threads :
            (/\ th[t].pc \in {"parse", "chunk", "embed"}
             /\ Returns(t) /\ th'[t].raised = None) =>
            LET msg == Some(C8_Message(th[t].pc))
            IN /\ th'[t].result = Some(ProcessingResult(th[t].document_id, "error", 0, msg))
               /\ RegistryHas(processing_status', th[t].document_id, "error", 0, msg)
       /\ \A t \in Threads :
            /\ th'[t].pc = "chunk" => th'[t].sections > 0
            /\ th'[t].pc = "embed" => th'[t].chunks > 0
            /\ th'[t].pc = "store" => th'[t].embeddings = th'[t].chunks]_vars

(* C8 witness: one run ended at the parser with zero sections, another at    *)
(* the embedder with a vector count mismatch.                                *)
C8_Witness ==
    \E t, u \in Threads :
        /\ th[t].pc = "done" /\ th[t].raised = None /\ LastStage(th[t]) = "parse"
        /\ th[u].pc = "done" /\ th[u].raised = None /\ LastStage(th[u]) = "embed_batch"

(* C9: when the store reports an upserted count n >= 1 the run returns       *)
(* 'ready' with chunk_count n, in the result and in the registry, also when  *)
(* n is less than the number of chunks the chunker produced.                 *)
C9_ReadyCount ==
    [][\A t \in Threads :
         (th[t].pc = "stored" /\ th[t].total_upserted >= 1 /\ th'[t].pc # "stored") =>
         /\ th'[t].pc = "done"
         /\ th'[t].result = Some(ProcessingResult(th[t].document_id, "ready",
                                                  th[t].total_upserted, None))
         /\ RegistryHas(processing_status', th[t].document_id, "ready",
                        th[t].total_upserted, None)]_vars

(* C9 witness: a run is 'ready' with fewer chunks than the chunker produced. *)
C9_Witness ==
    \E t \in Threads :
        /\ th[t].pc = "done" /\ th[t].result[1].status = "ready"
        /\ th[t].result[1].chunk_count < th[t].chunks
        /\ RegistryHas(processing_status, th[t].document_id, "ready",
                       th[t].result[1].chunk_count, None)

(* C10 (as claimed): when a run for a document that a previous run of the    *)
(* same project left 'ready', overlapped by no other run, fails after the    *)
(* cleanup step (at parse, chunk, embed or store), it returns 'error' and    *)
(* the store holds no chunk of the earlier run.                              *)
C10_CleanupNotRolledBack ==
    [][\A t \in Threads :
         (/\ Returns(t) /\ th'[t].prev # None /\ th'[t].alone
          /\ th'[t].prev[1].project_id = th'[t].project_id
          /\ "parse" \in Range(th'[t].calls)
          /\ th'[t].result[1].status = "error") =>
         PointsOfRun(qdrant', th'[t].prev[1].run) = {}]_vars

----------------------------------------------------------------------------
(* the calls for document_id that have started and not returned *)
InFlight(document_id) ==
    {t \in Threads : Running(th[t]) /\ th[t].document_id = document_id}

TerminalWrites == {"update_status:ready", "update_status:error"}

(* C11: every process_document call that has started eventually returns;    *)
(* the last registry write of each returned call is 'ready' or 'error'; and *)
(* with no clear_status, whenever a document has been submitted and none of *)
(* its calls is in flight, its registry status is 'ready' or 'error', not   *)
(* 'processing', however the calls interleave.                              *)
C11_EventuallyTerminal ==
    /\ \A t \in Threads : (th[t].pc # "idle") ~> (th[t].pc = "done")
    /\ [](\A t \in Threads : th[t].pc = "done" =>
            /\ th[t].calls # <<>>
            /\ th[t].calls[Len(th[t].calls)] \in TerminalWrites
            /\ CountCalls(th[t], TerminalWrites) = 1)
    /\ [](\A d \in DocumentIds :
            (InFlight(d) = {} /\ \E t \in Threads : th[t].document_id = d) =>
                /\ get_status(processing_status, d) # None
                /\ processing_status[d].status \in {"ready", "error"})

(* C11 witness: two calls for one document have overlapped and both have    *)
(* returned, one after a store failure, and the document is 'ready'.        *)
C11_Witness ==
    \E t, u \in Threads :
        /\ t # u /\ th[t].pc = "done" /\ th[u].pc = "done"
        /\ th[t].document_id = th[u].document_id
        /\ ~th[t].alone /\ ~th[u].alone
        /\ th[t].result[1].error_message = Some("Failed to store vectors in Qdrant")
        /\ processing_status[th[u].document_id].status = "ready"

----------------------------------------------------------------------------
(* no operation on the document of call t has touched its registry entry    *)
(* since the last write of t: no other call wrote it, no clear_status       *)
(* removed it                                                               *)
LastWriter(t) ==
    writer[th[t].document_id] = Some([run |-> t, project_id |-> th[t].project_id])

(* C12: once process_document has returned, and as long as no other         *)
(* operation on the same document_id has come after its last write,         *)
(* get_status(document_id) returns an entry whose status, chunk_count and   *)
(* error_message are those of the returned ProcessingResult.                *)
C12_StatusMirrorsResult ==
    \A t \in Threads :
        (th[t].pc = "done" /\ LastWriter(t)) =>
            LET result == th[t].result[1]
                entry == get_status(processing_status, th[t].document_id)
            IN /\ entry # None
               /\ entry[1].document_id = result.document_id
               /\ entry[1].status = result.status
               /\ entry[1].chunk_count = result.chunk_count
               /\ entry[1].error_message = result.error_message

(* C12 witness: a call that ran alone has returned 'ready' with two batches *)
(* of chunks, another has returned an error, each the last on its document. *)
C12_Witness ==
    \E t, u \in Threads :
        /\ th[t].pc = "done" /\ th[t].alone /\ LastWriter(t)
        /\ th[t].result[1].status = "ready"
        /\ th[t].result[1].chunk_count = batch_size + 1
        /\ th[u].pc = "done" /\ th[u].alone /\ LastWriter(u)
        /\ th[u].result[1].status = "error"
        /\ th[u].result[1].error_message = Some("Embedding generation failed")

----------------------------------------------------------------------------
(* the step leaves the registry entry of every document but a as it was *)
RegistryFrame(a) ==
    \A b \in DocumentIds \ {a} :
        get_status(processing_status', b) = get_status(processing_status, b)

(* the step removes no stored chunk of a document other than a *)
StoreFrame(a) ==
    \A pt \in qdrant.points : pt.document_id # a => pt \in qdrant'.points

(* C13: operations on one document_id never affect another. Every step of a *)
(* process_document call for document A, its cleanup deletion included, and *)
(* every clear_status(A) leaves the registry entry of each document B # A   *)
(* unchanged, and no deletion for A removes a stored chunk whose            *)
(* document_id is B.                                                        *)
C13_OtherDocumentsUntouched ==
    [][\A a \in DocumentIds :
         ~(RegistryFrame(a) /\ StoreFrame(a)) =>
            \* the step has touched a document other than a: it is no operation for a
            /\ \A t \in Threads, p \in ProjectIds, f \in Filenames : ~Submit(t, p, a, f)
            /\ \A t \in Threads : th[t].document_id = a => ~Step(t)
            /\ ~ClearStatus(a)
            /\ \A p \in ProjectIds : ~DeleteDocument(p, a)]_vars

(* C13 witness: document B is 'ready' with its chunks stored, and a call    *)
(* for another document A of the same collection has run its cleanup and    *)
(* returned 'ready'; B's entry and chunks are as B's call left them.        *)
C13_Witness ==
    \E t, u \in Threads :
        /\ th[t].pc = "done" /\ th[u].pc = "done" /\ u < t
        /\ th[t].document_id # th[u].document_id
        /\ _get_collection_name(th[t].project_id) = _get_collection_name(th[u].project_id)
        /\ "delete_document_chunks" \in Range(th[t].calls)
        /\ ~th[t].peer_cleaned
        /\ th[t].result[1].status = "ready"
        /\ th[u].result[1].status = "ready"
        /\ RegistryHas(processing_status, th[u].document_id, "ready",
                       th[u].result[1].chunk_count, None)
        /\ Cardinality(PointsOfRun(qdrant, u)) = th[u].result[1].chunk_count

----------------------------------------------------------------------------
(* no process_document call for document_id has started *)
NeverSubmitted(document_id) ==
    \A t \in Threads : th[t].pc = "idle" \/ th[t].document_id # document_id

(* C14: get_status returns None for a document_id that was never submitted  *)
(* and for one whose entry was cleared and not written since; an entry once *)
(* created stays present until clear_status(document_id) is called; and     *)
(* clear_status on an absent key returns leaving the registry as it was.    *)
C14_AbsentUntilSubmittedPresentUntilCleared ==
    /\ [](\A d \in DocumentIds :
            /\ NeverSubmitted(d) => get_status(processing_status, d) = None
            /\ writer[d] = None <=> get_status(processing_status, d) = None
            /\ get_status(processing_status, d) = None =>
                   clear_status(processing_status, d) = processing_status)
    /\ [][\A d \in DocumentIds :
            (get_status(processing_status, d) # None
               /\ get_status(processing_status', d) = None) => ClearStatus(d)]_vars

(* C14 witness: one document was submitted, its call returned and its entry *)
(* was then cleared; another keeps the entry its returned call wrote; and   *)
(* the first is absent from the registry.                                   *)
C14_Witness ==
    \E t, u \in Threads :
        /\ th[t].pc = "done" /\ th[u].pc = "done"
        /\ th[t].document_id # th[u].document_id
        /\ writer[th[t].document_id] = None
        /\ get_status(processing_status, th[t].document_id) = None
        /\ LastWriter(u)
        /\ get_status(processing_status, th[u].document_id) # None

----------------------------------------------------------------------------
(* Vocabulary of the chunking properties *)

(* chunk_document has returned *)
Chunked == chunked # None

(* the index of the first line break of a chunk's content: the end of its header *)
HeaderEnd(content) ==
    LET js == {j \in 1..Len(content) : content[j] = "\n"}
    IN CHOOSE j \in js : \A i \in js : j <= i

(* the header of a chunk and its body: the text before and after that line break *)
HeaderOf(chunk) == SubSeq(chunk.content, 1, HeaderEnd(chunk.content) - 1)
BodyOf(chunk) == SubSeq(chunk.content, HeaderEnd(chunk.content) + 1, Len(chunk.content))

(* the section's metadata marks it as a table *)
MarkedTable(section) ==
    "type" \in DOMAIN section.metadata /\ section.metadata["type"] = "table"

(* C15: for any list of sections, the chunk_index values of the chunks      *)
(* chunk_document returns are, in output order, exactly 0, 1, ..., n-1: the *)
(* counter starts at 0, goes up by one per chunk and is not reset between   *)
(* sections.                                                                *)
C15_ChunkIndexSequential ==
    Chunked =>
        LET chunks == chunked[1].chunks
        IN \A k \in 1..Len(chunks) : chunks[k].metadata.chunk_index = k - 1

(* C15 witness: a document of two sections, each split into two chunks; the *)
(* first chunk of the second section has index 2.                           *)
C15_Witness ==
    /\ Chunked
    /\ Len(chunked[1].sections) = 2
    /\ \A s \in 1..2 : ~MarkedTable(chunked[1].sections[s])
    /\ Len(chunked[1].chunks) = 4
    /\ chunked[1].chunks[3].metadata.chunk_index = 2
    /\ BodyOf(chunked[1].chunks[3]) # BodyOf(chunked[1].chunks[4])

(* C16: a section whose metadata marks it as a table yields exactly one     *)
(* chunk, flagged is_table, whose body after the prefix is the section's    *)
(* content unmodified, whatever the length of the content and whatever      *)
(* chunk_size_chars: a document of table sections yields one such chunk per *)
(* section, in order.                                                       *)
C16_TableNotSplit ==
    (Chunked /\ \A s \in 1..Len(chunked[1].sections) :
                    MarkedTable(chunked[1].sections[s])) =>
        LET sections == chunked[1].sections
            chunks == chunked[1].chunks
        IN /\ Len(chunks) = Len(sections)
           /\ \A s \in 1..Len(sections) :
                /\ chunks[s].metadata.is_table
                /\ BodyOf(chunks[s]) = sections[s].content

(* C16 witness: a table of two paragraphs, longer than chunk_size_chars     *)
(* and with whitespace at its end, is the body of the only chunk.           *)
C16_Witness ==
    /\ Chunked
    /\ Len(chunked[1].sections) = 1
    /\ MarkedTable(chunked[1].sections[1])
    /\ Len(chunked[1].sections[1].content) > engine[1].chunk_size_chars
    /\ Len(_split_at_paragraphs(chunked[1].sections[1].content)) = 2
    /\ strip(chunked[1].sections[1].content) # chunked[1].sections[1].content
    /\ Len(chunked[1].chunks) = 1
    /\ BodyOf(chunked[1].chunks[1]) = chunked[1].sections[1].content

----------------------------------------------------------------------------
(* chunk_document was given one section *)
OneSection == Chunked /\ Len(chunked[1].sections) = 1

(* C17: chunk_document emits no chunk for a section whose content is empty, *)
(* and returns the empty list for the empty list of sections: a document    *)
(* all of whose sections have empty content yields no chunk.                *)
C17_NoChunkForEmptySection ==
    (Chunked /\ \A s \in 1..Len(chunked[1].sections) :
                    chunked[1].sections[s].content = <<>>) =>
        chunked[1].chunks = <<>>

----------------------------------------------------------------------------
IsSuffix(s, text) ==
    Len(s) <= Len(text) /\ SubSeq(text, Len(text) - Len(s) + 1, Len(text)) = s

IsPrefix(s, text) == Len(s) <= Len(text) /\ SubSeq(text, 1, Len(s)) = s

(* the one section given to chunk_document is no table and is longer than a chunk *)
Oversized ==
    /\ OneSection
    /\ ~MarkedTable(chunked[1].sections[1])
    /\ Len(chunked[1].sections[1].content) > engine[1].chunk_size_chars

(* the paragraphs and sentences of the oversized section *)
PartsOfSection ==
    ProcessedParts(engine[1], _split_at_paragraphs(chunked[1].sections[1].content))

(* C18: for any two consecutive chunks i and i+1 produced by splitting one  *)
(* oversized section, the overlap seed of chunk i+1, its parts joined by    *)
(* the 2-character blank-line separator, is a suffix of the body of chunk   *)
(* i, is what the body of chunk i+1 begins with, and is at most             *)
(* chunk_overlap_chars long.                                                *)
C18_OverlapSeed ==
    Oversized =>
        LET chunks == chunked[1].chunks
            trace == CombineTrace(engine[1], PartsOfSection)
        IN /\ Len(trace) = Len(chunks)
           /\ \A i \in 1..(Len(chunks) - 1) :
                LET seed == Join(BlankLine, trace[i + 1].seed)
                IN /\ IsSuffix(seed, BodyOf(chunks[i]))
                   /\ IsPrefix(seed, BodyOf(chunks[i + 1]))
                   /\ Len(seed) <= engine[1].chunk_overlap_chars

(* C18 witness: the first chunk of a section closed with a five-character  *)
(* part and a one-character part, and the second chunk opens with the last  *)
(* character of the one and the whole of the other: four characters with    *)
(* the separator, the whole overlap.                                        *)
C18_Witness ==
    /\ Oversized
    /\ Len(chunked[1].chunks) >= 2
    /\ engine[1].chunk_overlap_chars = 4
    /\ LET trace == CombineTrace(engine[1], PartsOfSection)
       IN /\ trace[1].parts = <<<<"c", "d", "e", "f", "g">>, <<"a">>>>
          /\ trace[2].seed = <<<<"g">>, <<"a">>>>
          /\ Len(trace[2].parts) = 3
          /\ IsPrefix(<<"g", "\n", "\n", "a">>, BodyOf(chunked[1].chunks[2]))

----------------------------------------------------------------------------
(* the header the source section and the document name call for *)
ExpectedHeader(section, document_name) ==
    Join(<<" ">>,
         <<DocumentTag(document_name)>>
         \o (IF section.page_number # None
             THEN <<PageTag(section.page_number[1])>> ELSE <<>>)
         \o (IF section.section_title # None /\ section.section_title # Some(<<>>)
             THEN <<SectionTag(section.section_title[1])>> ELSE <<>>))

(* C19: the content of every emitted chunk is header, line break, body,     *)
(* where the header is the space-joined sequence of '[Document: <name>]',   *)
(* of '[Page <n>]' if and only if the source section has a page number n,   *)
(* whatever integer n is, and of '[Section: <title>]' if and only if the    *)
(* source section has a (non-empty) title.                                  *)
C19_HeaderLineBreakBody ==
    OneSection =>
        LET section == chunked[1].sections[1]
            chunks == chunked[1].chunks
            bodies == IF MarkedTable(section) THEN <<section.content>>
                      ELSE _chunk_section(engine[1], section)
        IN /\ Len(chunks) = Len(bodies)
           /\ \A k \in 1..Len(chunks) :
                chunks[k].content =
                    ExpectedHeader(section, chunked[1].document_name)
                    \o <<"\n">> \o bodies[k]

----------------------------------------------------------------------------
(* C20 as stated: a non-table section is emitted as a single chunk whose    *)
(* body is its content when len(content) <= chunk_size_chars, and is split  *)
(* into more than one chunk when its content is longer.                     *)
C20_SplitWhenLonger ==
    (OneSection /\ ~MarkedTable(chunked[1].sections[1])) =>
        LET content == chunked[1].sections[1].content
            chunks == chunked[1].chunks
        IN IF Len(content) <= engine[1].chunk_size_chars
           THEN Len(chunks) = 1 /\ BodyOf(chunks[1]) = content
           ELSE Len(chunks) > 1

(* C20 amended: a non-table section is emitted as a single chunk whose body *)
(* is its content when len(content) <= chunk_size_chars. When its content   *)
(* is longer, it is split into more than one chunk exactly when it breaks   *)
(* into at least two parts (paragraphs, sentences of an oversized           *)
(* paragraph) that, joined by the 2-character separator, are longer than    *)
(* chunk_size_chars; otherwise it yields one chunk, the joined parts,       *)
(* however long a single part is, and no chunk when it is all whitespace.   *)
C20_SplitWhenPartsOverflow ==
    (OneSection /\ ~MarkedTable(chunked[1].sections[1])) =>
        LET content == chunked[1].sections[1].content
            chunks == chunked[1].chunks
        IN IF Len(content) <= engine[1].chunk_size_chars
           THEN Len(chunks) = 1 /\ BodyOf(chunks[1]) = content
           ELSE LET parts == PartsOfSection
                    joined == Join(BlankLine, parts)
                IN /\ Len(chunks) > 1 <=>
                        (Len(parts) >= 2 /\ Len(joined) > engine[1].chunk_size_chars)
                   /\ Len(chunks) = 1 => BodyOf(chunks[1]) = joined
                   /\ Len(chunks) = 0 <=>
                        \A k \in 1..Len(content) : content[k] \in WhitespaceChars

(* C20 witness: a section of one word longer than chunk_size_chars has come *)
(* out as one chunk, longer than chunk_size_chars.                          *)
C20_Witness ==
    /\ Oversized
    /\ Len(chunked[1].chunks) = 1
    /\ Len(PartsOfSection) = 1
    /\ Len(BodyOf(chunked[1].chunks[1])) > engine[1].chunk_size_chars

----------------------------------------------------------------------------
(* _split_at_sentences has returned *)
SentencesSplit == split # None

(* where each of the sentences ends in text, the sentences found one after  *)
(* the other from pos with the whitespace between them skipped; 0 for a     *)
(* sentence that is not there                                               *)
RECURSIVE Locate(_, _, _)
Locate(text, sentences, pos) ==
    IF sentences = <<>> THEN <<>>
    ELSE LET from == RunEnd(text, pos) + 1
             to == from + Len(Head(sentences)) - 1
         IN IF to <= Len(text) /\ SubSeq(text, from, to) = Head(sentences)
            THEN <<to>> \o Locate(text, Tail(sentences), to + 1)
            ELSE <<0>>

(* text[b] is the dot of a configured abbreviation standing as a word *)
AbbreviationDot(text, b) ==
    text[b] = "." /\ \E abbrev \in ABBREVIATIONS : AbbrevBefore(text, b, abbrev)

(* text[b] is the dot of a digit-dot-digit pattern *)
DecimalDot(text, b) ==
    /\ text[b] = "."
    /\ b > 1 /\ text[b - 1] \in Range(Digits)
    /\ b < Len(text) /\ text[b + 1] \in Range(Digits)

(* text[b] is followed by whitespace and an uppercase letter, or by         *)
(* optional whitespace and a line break                                     *)
EndsSentence(text, b) ==
    LET r == RunEnd(text, b + 1)
    IN \/ r > b /\ r < Len(text) /\ text[r + 1] \in Range(UpperChars)
       \/ \E j \in (b + 1)..r : text[j] = "\n"

(* C21: _split_at_sentences returns the text cut at sentence boundaries,    *)
(* nothing but whitespace lost. Every boundary stands after a '.', '!' or   *)
(* '?' that is followed by whitespace and an uppercase letter or by         *)
(* optional whitespace and a line break, and that is neither the dot of a   *)
(* configured abbreviation nor the dot of a digit-dot-digit pattern.        *)
(* 'The value is 3.14159. This is pi.' is split exactly once, after         *)
(* '3.14159.'.                                                              *)
C21_SentenceBoundaries ==
    SentencesSplit =>
        LET text == split[1].text
            sentences == split[1].sentences
            ends == Locate(text, sentences, 1)
            last == IF ends = <<>> THEN 0 ELSE ends[Len(ends)]
        IN /\ Len(ends) = Len(sentences)
           /\ \A k \in 1..Len(ends) : ends[k] > 0
           /\ RunEnd(text, last + 1) = Len(text)
           /\ \A k \in 1..(Len(ends) - 1) :
                LET b == ends[k]
                IN /\ text[b] \in {".", "!", "?"}
                   /\ ~AbbreviationDot(text, b)
                   /\ ~DecimalDot(text, b)
                   /\ EndsSentence(text, b)
           /\ text = TestDecimal =>
                sentences = <<SubSeq(TestDecimal, 1, 21), SubSeq(TestDecimal, 23, 33)>>

(* C21 witness: the text of the abbreviation test, in which 'Dr.' and 'Mr.' *)
(* are each followed by a space and an uppercase letter, has been split     *)
(* once, after 'store.'.                                                    *)
C21_Witness ==
    /\ SentencesSplit
    /\ split[1].text = TestAbbreviations
    /\ EndsSentence(TestAbbreviations, 3) /\ EndsSentence(TestAbbreviations, 39)
    /\ split[1].sentences =
         <<SubSeq(TestAbbreviations, 1, 28), SubSeq(TestAbbreviations, 30, 52)>>

----------------------------------------------------------------------------
(* a chunk without its chunk_id *)
Payload(chunk) ==
    [content |-> chunk.content, document_id |-> chunk.document_id,
     document_name |-> chunk.document_name, metadata |-> chunk.metadata]

----------------------------------------------------------------------------
(* parse has returned or raised *)
Parsed == parsed # None

(* the type given to parse is one DocumentParser has a parser for *)
SupportedType(file_type) == Str(LStrip(Lower(file_type), ".")) \in _parsers

(* C23: DocumentParser.parse never raises to its caller, and returns the    *)
(* empty list for an unsupported file type, for a path that does not        *)
(* exist, for an exception raised by the parser of the format, and for a    *)
(* file with no meaningful content.                                         *)
C23_ParseNeverRaises ==
    Parsed =>
        LET file == parsed[1].file
            result == parsed[1].result
        IN /\ result.raised = None
           /\ ( \/ ~SupportedType(parsed[1].file_type)
                \/ file.stat # "ok"
                \/ file.raises
                \/ \A k \in 1..Len(file.extracted) : ~is_meaningful_text(file.extracted[k]) )
              => result.sections = <<>>

----------------------------------------------------------------------------
(* the collaborator operations of process_document, in the order of its code *)
StageOrder == <<"delete_document_chunks", "parse", "chunk_document",
                "embed_batch", "upsert_chunks">>

(* the collaborator operations call r has invoked, in order *)
Invoked(r) == SelectSeq(r.calls, LAMBDA c : c \in Collaborators)

(* the step in which call t invokes the collaborator operation *)
Invokes(t, operation) ==
    operation \notin Range(th[t].calls) /\ operation \in Range(th'[t].calls)

(* C24: within one process_document call each collaborator operation (store *)
(* delete, parse, chunk, embed_batch, upsert) is invoked at most once and   *)
(* only in that order. Once a stage fails no later one is invoked: the      *)
(* chunker is invoked only on at least one section, the embedder only on at *)
(* least one chunk, upsert only when the embedder returned exactly as many  *)
(* vectors as there are chunks, and a call that has returned invokes        *)
(* nothing.                                                                 *)
C24_StagesOnceInOrder ==
    /\ [](\A t \in Threads : IsPrefix(Invoked(th[t]), StageOrder))
    /\ [][\A t \in Threads :
            /\ Invokes(t, "chunk_document") => th[t].sections >= 1
            /\ Invokes(t, "embed_batch") => th[t].chunks >= 1
            /\ Invokes(t, "upsert_chunks") =>
                    th[t].chunks >= 1 /\ th[t].embeddings = th[t].chunks
            /\ th[t].pc = "done" => th'[t].calls = th[t].calls]_vars

(* C24 witness: one call has gone through the five operations in order and  *)
(* ended 'ready'; another has ended in error after the embedder returned a  *)
(* wrong number of vectors, without invoking upsert.                        *)
C24_Witness ==
    \E t, u \in Threads :
        /\ th[t].pc = "done" /\ th[t].result[1].status = "ready"
        /\ Invoked(th[t]) = StageOrder
        /\ th[u].pc = "done"
        /\ th[u].result[1].error_message = Some("Embedding generation failed")
        /\ Invoked(th[u]) = SubSeq(StageOrder, 1, 4)

----------------------------------------------------------------------------
(* _combine_with_overlap has returned *)
Combined == combined # None

(* the chunks it returned as lists of parts, each with its overlap seed *)
Trace == CombineTrace(engine[1], combined[1].parts)

(* the text of the first j parts of a chunk *)
TextOf(chunk_parts, j) == Join(BlankLine, SubSeq(chunk_parts, 1, j))

(* C25: in _combine_with_overlap the parts are recombined greedily with a   *)
(* cost of exactly 2 characters per joiner. The current chunk is closed     *)
(* before a part if and only if the real length of the current chunk text   *)
(* (its parts joined by the 2-character separator, overlap seed included)   *)
(* plus 2 plus the part's length exceeds chunk_size_chars; otherwise the    *)
(* part is appended to the current chunk.                                   *)
C25_GreedyRealLength ==
    Combined =>
        LET trace == Trace
            max == engine[1].chunk_size_chars
        IN /\ \A k \in 1..Len(trace) :
                combined[1].chunks[k] = TextOf(trace[k].parts, Len(trace[k].parts))
           \* a part that opened a new chunk did not fit the chunk closed before it
           /\ \A k \in 2..Len(trace) :
                LET closed == trace[k - 1].parts
                    part == trace[k].parts[Len(trace[k].seed) + 1]
                IN Len(TextOf(closed, Len(closed))) + 2 + Len(part) > max
           \* a part that was appended fitted the chunk it was appended to
           /\ \A k \in 1..Len(trace) :
                \A j \in (Len(trace[k].seed) + 2)..Len(trace[k].parts) :
                    Len(TextOf(trace[k].parts, j - 1)) + 2 + Len(trace[k].parts[j]) <= max

----------------------------------------------------------------------------
(* the overlap budget spent on the last w parts of a closed chunk: their    *)
(* lengths and one 2-character joiner each                                  *)
RECURSIVE Spent(_, _)
Spent(closed, w) ==
    IF w = 0 THEN 0
    ELSE Spent(closed, w - 1) + Len(closed[Len(closed) - w + 1]) + 2

(* how many parts of the closed chunk, from its end, fit whole one after    *)
(* the other into the budget                                                *)
WholeParts(closed, budget) ==
    SetMax({w \in 0..Len(closed) :
              \A v \in 1..w :
                  Spent(closed, v - 1) + Len(closed[Len(closed) - v + 1]) <= budget})

(* C26: the overlap seed is built from the end of the chunk just closed:    *)
(* whole parts while they fit; at the first part that does not fit whole,   *)
(* if the remaining budget (chunk_overlap_chars minus the lengths of the    *)
(* parts already included and their 2-character joiners) is positive,       *)
(* exactly the last 'remaining' characters of that part, and the seed text  *)
(* is then exactly chunk_overlap_chars long; no part before that one.       *)
C26_SeedFillsBudget ==
    Combined =>
        LET trace == Trace
            budget == engine[1].chunk_overlap_chars
        IN \A k \in 2..Len(trace) :
              LET closed == trace[k - 1].parts
                  seed == trace[k].seed
                  w == WholeParts(closed, budget)
                  whole == SubSeq(closed, Len(closed) - w + 1, Len(closed))
                  remaining == budget - Spent(closed, w)
              IN IF w = Len(closed) \/ remaining <= 0
                 THEN seed = whole
                 ELSE LET part == closed[Len(closed) - w]
                      IN /\ Len(part) > remaining
                         /\ seed = <<SubSeq(part, Len(part) - remaining + 1, Len(part))>>
                                   \o whole
                         /\ Len(Join(BlankLine, seed)) = budget

(* C26 witness: a chunk of a five-character part and a one-character part   *)
(* was closed with a budget of four: the one-character part fitted whole,   *)
(* one character of budget remained, and the seed is the last character of  *)
(* the five and the one.                                                    *)
C26_Witness ==
    /\ Combined
    /\ engine[1].chunk_overlap_chars = 4
    /\ Len(Trace) >= 2
    /\ Trace[1].parts = <<<<"g", "h", "i", "j", "k">>, <<"a">>>>
    /\ Trace[2].seed = <<<<"k">>, <<"a">>>>
    /\ Len(combined[1].chunks[2]) >= 4
    /\ SubSeq(combined[1].chunks[2], 1, 4) = <<"k", "\n", "\n", "a">>

----------------------------------------------------------------------------
(* C27: every registry entry, in every reachable state and under any        *)
(* interleaving of submits, has a status among 'processing', 'ready' and    *)
(* 'error' (never 'pending'), a chunk_count of at least 1 if and only if    *)
(* its status is 'ready', and an error_message if and only if its status    *)
(* is 'error'.                                                              *)
C27_RegistryEntryShape ==
    \A document_id \in DOMAIN processing_status :
        LET entry == processing_status[document_id]
        IN /\ entry.document_id = document_id
           /\ entry.status \in {"processing", "ready", "error"}
           /\ entry.chunk_count >= 1 <=> entry.status = "ready"
           /\ entry.error_message # None <=> entry.status = "error"

(* C27 witness: the registry holds a 'ready' entry with its chunks, an      *)
(* 'error' entry with its message, or a 'processing' entry of a call that   *)
(* is under way, for two documents at once.                                 *)
C27_Witness ==
    \E t, u \in Threads :
        /\ th[t].pc = "done"
        /\ th[t].document_id # th[u].document_id
        /\ {th[t].document_id, th[u].document_id} \subseteq DOMAIN processing_status
        /\ processing_status[th[t].document_id].status = "ready"
        /\ processing_status[th[t].document_id].chunk_count >= 1
        /\ \/ /\ th[u].pc = "done"
              /\ processing_status[th[u].document_id].status = "error"
              /\ processing_status[th[u].document_id].error_message # None
           \/ /\ Running(th[u])
              /\ processing_status[th[u].document_id].status = "processing"
              /\ processing_status[th[u].document_id].chunk_count = 0

(* C28: delete_document(project_id, document_id) touches only the store:    *)
(* it leaves the registry, the calls under way and the store's other        *)
(* points as they were; when it returns, it returns the number of points    *)
(* the store removed and, if the document's entry was 'ready', get_status   *)
(* returns the same entry afterwards, 'ready' with the old chunk_count,     *)
(* while the project's collection holds no chunk of the document.           *)
C28_DeleteTouchesOnlyStore ==
    [][ (deleted = None /\ deleted' # None) =>
          LET project_id == deleted'[1].project_id
              document_id == deleted'[1].document_id
              collection_name == _get_collection_name(project_id)
              before == get_status(processing_status, document_id)
          IN /\ processing_status' = processing_status
             /\ UNCHANGED <<th, writer, is_connected, is_loaded>>
             /\ qdrant'.collections = qdrant.collections
             /\ qdrant'.points \subseteq qdrant.points
             /\ qdrant.points \ qdrant'.points
                  \subseteq PointsOf(qdrant, collection_name, document_id)
             /\ deleted'[1].raised = None =>
                  /\ deleted'[1].ret =
                       Some(Cardinality(qdrant.points \ qdrant'.points))
                  /\ (before # None /\ before[1].status = "ready") =>
                       /\ get_status(processing_status', document_id) = before
                       /\ before[1].chunk_count >= 1
                       /\ PointsOf(qdrant', collection_name, document_id) = {}
      ]_vars

----------------------------------------------------------------------------
(* the parts of the chunks 1..k that are not overlap seed, in order *)
RECURSIVE NonSeedParts(_, _)
NonSeedParts(trace, k) ==
    IF k = 0 THEN <<>>
    ELSE NonSeedParts(trace, k - 1)
         \o SubSeq(trace[k].parts, Len(trace[k].seed) + 1, Len(trace[k].parts))

(* C29: _combine_with_overlap loses and reorders no content. Every emitted  *)
(* chunk is its overlap seed followed by parts of the input, joined; the    *)
(* parts that are not seed, read across the chunks in order, are the input  *)
(* parts in order, each whole and exactly once; and for a non-empty list    *)
(* the number of chunks is at least 1 and at most the number of parts.      *)
C29_NothingLostOrReordered ==
    Combined =>
        LET parts == combined[1].parts
            chunks == combined[1].chunks
            trace == Trace
        IN /\ Len(chunks) = Len(trace)
           /\ \A k \in 1..Len(chunks) :
                /\ IsPrefix(trace[k].seed, trace[k].parts)
                /\ Len(trace[k].parts) > Len(trace[k].seed)
                /\ chunks[k] = Join(BlankLine, trace[k].parts)
           /\ NonSeedParts(trace, Len(trace)) = parts
           /\ parts # <<>> => (1 <= Len(chunks) /\ Len(chunks) <= Len(parts))
           /\ parts = <<>> => chunks = <<>>

(* C29 witness: five parts came out as three chunks: three parts in the    *)
(* first, and one part behind a seed in the second and in the third.        *)
C29_Witness ==
    /\ Combined
    /\ Len(combined[1].parts) = 5
    /\ Len(combined[1].chunks) = 3
    /\ Trace[2].seed # <<>> /\ Trace[3].seed # <<>>
    /\ Len(Trace[1].parts) = 3

----------------------------------------------------------------------------
(* C30: when every part given to _combine_with_overlap is at most           *)
(* chunk_size_chars long, every emitted chunk is at most chunk_size_chars   *)
(* + chunk_overlap_chars + 2 characters long, and a chunk opened without    *)
(* an overlap seed, as the first chunk is, is at most chunk_size_chars      *)
(* long.                                                                    *)
C30_ChunkLengthBound ==
    (Combined /\ \A i \in 1..Len(combined[1].parts) :
                    Len(combined[1].parts[i]) <= engine[1].chunk_size_chars) =>
        LET chunks == combined[1].chunks
            trace == Trace
            max == engine[1].chunk_size_chars
        IN /\ Len(trace) = Len(chunks)
           /\ chunks # <<>> => trace[1].seed = <<>>
           /\ \A k \in 1..Len(chunks) :
                /\ Len(chunks[k]) <= max + engine[1].chunk_overlap_chars + 2
                /\ trace[k].seed = <<>> => Len(chunks[k]) <= max

(* C30 witness: with chunks of 8 characters and an overlap of 4, parts of   *)
(* at most 5 characters gave a first chunk within 8 characters and a later  *)
(* chunk, opened with a seed, of more than 8.                               *)
C30_Witness ==
    /\ Combined
    /\ engine[1].chunk_size_chars = 8
    /\ engine[1].chunk_overlap_chars = 4
    /\ Len(combined[1].chunks) >= 2
    /\ Len(combined[1].chunks[1]) = 8
    /\ \E k \in 2..Len(combined[1].chunks) :
         /\ Trace[k].seed # <<>>
         /\ Len(combined[1].chunks[k]) > 8

====
